---- MODULE Spec2Model ----
(***************************************************************************)
(* Model of the IPC core of rust-libmdnsresponder: the wire codec          *)
(* (src/src/ipc/header, src/src/ipc/operation), the reader task            *)
(* (Ipc::listener, Ipc::parse_frame and the three reply parsers), the      *)
(* bounded event channel between the reader and the consumer, and the      *)
(* open/close lifecycle (MDnsResponder::new, Ipc::new, Ipc::close).        *)
(*                                                                         *)
(* Bytes are naturals 0..255, byte slices and Rust Strings (their UTF-8    *)
(* bytes) are sequences of bytes.  A Result is a record with a field       *)
(* kind: "ok", "err", and "panic" where the Rust code would panic (a slice *)
(* index out of range).                                                    *)
(***************************************************************************)
EXTENDS Integers, Sequences, FiniteSets, TLC

VARIABLES
    frames,        \* the frames (catalogue numbers) the daemon will write, in order
    written,       \* number of frames the daemon has written so far
    wire,          \* bytes written by the daemon and not yet read by the reader
    responder,     \* result of MDnsResponder::new: "none", "open", or the error
    capacity,      \* channel_buffer_size given to MDnsResponder::new
    pc,            \* reader task: "unborn", "select", "send", "exited", "panicked"
    buffer,        \* listener's local Vec<u8> buffer
    pos,           \* listener's local pos of the drain loop
    base,          \* history: stream offset of buffer[1]
    pending,       \* the sends left in this pass of the drain loop, [ev, size, at]
                   \* each; the reader is in the send of the first
    after,         \* the listener's locals at the end of this pass of the loop
    chan,          \* events queued in the mpsc channel
    sender,        \* the mpsc::Sender moved into the listener: "none", "alive", "dropped"
    rx,            \* the mpsc::Receiver: "none", "open", "eos" (recv returned None), "dropped"
    received,      \* history: events the consumer received, in order
    published,     \* history: successful sends, [ev, at], at = stream offset of the frame
    lost,          \* history: events whose send failed (receiver gone)
    cancel_token,  \* CancellationToken: TRUE once cancelled
    closePc,       \* Ipc::close: "idle", "joining", "returned", "panicked"
    conn,          \* UnixStream::connect in Ipc::new: "none" (not called), "refused",
                   \* "connected"
    ipc,           \* what Ipc::new has created: a subset of IpcParts
    requests,      \* the writer calls the application will still make, in order
    wpc,           \* the writer call in progress: "idle", or "writable" while it
                   \* awaits write_socket.writable()
    wcall,         \* the call in progress: [op, context, buf], NoCall when none
    calls,         \* history: the calls that returned, [op, context, buf, at, n,
                   \* ret, reader]; at is the length of sent before the call, n
                   \* what try_write returned (-1: Err), reader what the reader
                   \* task was doing when the call returned
    sent,          \* bytes the client has put on the socket, in order
    codec          \* a call of a wire-codec function on its own: [fn, stage, arg,
                   \* bytes, out], NoCodec when none is under study

\* the state of the writer side
wvars == <<requests, wpc, wcall, calls, sent>>

vars == <<frames, written, wire, responder, capacity, pc, buffer, pos, base, pending,
          after, chan, sender, rx, received, published, lost, cancel_token, closePc,
          conn, ipc, requests, wpc, wcall, calls, sent, codec>>

----------------------------------------------------------------------------
(* Byte-slice helpers *)

\* &buf[from..to] with 0-based, half-open Rust indices (from <= to <= len)
Slice(buf, from, to) == SubSeq(buf, from + 1, to)

\* &buf[from..]
SliceFrom(buf, from) == SubSeq(buf, from + 1, Len(buf))

\* buf[i] with a 0-based Rust index
At(buf, i) == buf[i + 1]

Min(a, b) == IF a < b THEN a ELSE b

\* u32::from_be_bytes on the bytes at 0-based offset i.  The model's integers
\* are 32-bit signed: a value of 2^30 or more is represented by U32_CAP.  The
\* code only orders such a value against small numbers (the operation tables,
\* 28 + data_length against buf.len()), where all values from 2^30 on behave alike.
U32_CAP == 1073741824

U32At(buf, i) ==
    IF At(buf, i) >= 64 THEN U32_CAP
    ELSE ((At(buf, i) * 256 + At(buf, i + 1)) * 256 + At(buf, i + 2)) * 256 + At(buf, i + 3)

\* the same value modulo 2^30: all that `value & mask` needs for a mask below 2^30
U32Low30At(buf, i) ==
    (((At(buf, i) % 64) * 256 + At(buf, i + 1)) * 256 + At(buf, i + 2)) * 256 + At(buf, i + 3)

\* u16::from_be_bytes

U16At(buf, i) == At(buf, i) * 256 + At(buf, i + 1)

\* u32::to_be_bytes / u16::to_be_bytes
BE32(n) == << (n \div 16777216) % 256, (n \div 65536) % 256, (n \div 256) % 256, n % 256 >>

BE16(n) == << (n \div 256) % 256, n % 256 >>

\* value & bit != 0 for a single-bit mask
HasBit(value, bit) == (value \div bit) % 2 = 1

----------------------------------------------------------------------------
(* header/mod.rs, header/reply.rs, header/request.rs *)

IPC_HEADER_SIZE == 28

REPLY_OPERATION_START == 64

ReplyOperationNames ==
    << "Enumeration", "RegisterService", "Browse", "Resolve", "Query",
       "RegisterRecord", "GetProperty", "PortMapping", "AddressInfo", "AsyncError" >>

\* ReplyOperation::from_u32: Some(op) for 64..73, else None
ReplyOperation_from_u32(value) ==
    IF value >= 64 /\ value <= 73
    THEN [some |-> TRUE, op |-> ReplyOperationNames[value - 63]]
    ELSE [some |-> FALSE]

RequestOperationNames ==
    << "None", "Connection", "RegisterRecord", "RemoveRecord", "Enumeration",
       "RegisterService", "Browse", "Resolve", "Query", "ReconfirmRecord",
       "AddRecord", "UpdateRecord", "SetDomain", "GetProperty", "PortMapping",
       "AddressInfo", "SendBpfObsolete", "GetPid", "Release", "ConnectionDelegate" >>

\* RequestOperation::from_u32: Some(op) for 0..19 and 63, else None
RequestOperation_from_u32(value) ==
    IF value >= 0 /\ value <= 19
    THEN [some |-> TRUE, op |-> RequestOperationNames[value + 1]]
    ELSE IF value = 63 THEN [some |-> TRUE, op |-> "Cancel"]
    ELSE [some |-> FALSE]

\* IpcMessageHeader::from after the length check, with the looked-up operation
HeaderFields(buf, operation_num, table) ==
    IF ~table.some THEN [kind |-> "err", why |-> "operation"]
    ELSE [kind |-> "ok",
          version |-> U32At(buf, 0),
          data_length |-> U32At(buf, 4),
          ipc_flags |-> U32At(buf, 8),
          operation |-> [dir |-> IF operation_num >= REPLY_OPERATION_START
                                 THEN "Reply" ELSE "Request",
                         op |-> table.op],
          client_context |-> Slice(buf, 16, 24),
          reg_index |-> U32At(buf, 24)]

\* variant of OperationLookup that sends only codes above 64 to the reply table
OperationLookup_Above(operation_num) ==
    IF operation_num > REPLY_OPERATION_START
    THEN ReplyOperation_from_u32(operation_num)
    ELSE RequestOperation_from_u32(operation_num)

\* the operation table IpcMessageHeader::from consults for operation_num
OperationLookup(operation_num) ==
    IF operation_num >= REPLY_OPERATION_START
    THEN ReplyOperation_from_u32(operation_num)
    ELSE RequestOperation_from_u32(operation_num)

\* IpcMessageHeader::from.  client_context is kept as its 8 big-endian bytes.
IpcMessageHeader_from(buf) ==
    IF Len(buf) < IPC_HEADER_SIZE THEN [kind |-> "err", why |-> "short"]
    ELSE HeaderFields(buf, U32At(buf, 12), OperationLookup(U32At(buf, 12)))

----------------------------------------------------------------------------
(* operation/mod.rs and operation/browse.rs: reply header *)

MORE_COMING == 1

ADD == 2

THRESHOLD_REACHED == 33554432

\* the flags vector ReplyFlags::from_u32 builds
FlagsOf(value) ==
    (IF HasBit(value, MORE_COMING) THEN << "more_coming" >> ELSE << >>)
    \o (IF HasBit(value, ADD) THEN << "add" >> ELSE << >>)
    \o (IF HasBit(value, THRESHOLD_REACHED) THEN << "threshold_reached" >> ELSE << >>)

\* ReplyFlags::from_u32 (operation/mod.rs and, identically, operation/browse.rs)
ReplyFlags_from_u32(value) ==
    IF FlagsOf(value) = << >> THEN [kind |-> "err"]
    ELSE [kind |-> "ok", flags |-> FlagsOf(value)]

REPLY_HEADER_SIZE == 12

\* ReplyHeader::from_bytes after the length check, with the decoded flags
ReplyHeaderFields(buf, f) ==
    IF f.kind = "err" THEN [kind |-> "err"]
    ELSE [kind |-> "ok", flags |-> f.flags,
          interface_index |-> U32At(buf, 4), error |-> U32At(buf, 8)]

\* ReplyHeader::from_bytes (operation/mod.rs and, identically, operation/browse.rs)
ReplyHeader_from_bytes(buf) ==
    IF Len(buf) < REPLY_HEADER_SIZE THEN [kind |-> "err"]
    ELSE ReplyHeaderFields(buf, ReplyFlags_from_u32(U32Low30At(buf, 0)))

----------------------------------------------------------------------------
(* NUL-terminated strings of the reply bodies *)

UTF8_REPLACEMENT == << 239, 191, 189 >>

IsCont(b) == b >= 128 /\ b <= 191

\* length of the UTF-8 sequence a lead byte announces, 0 for no lead byte
Utf8Width(b) ==
    IF b < 128 THEN 1
    ELSE IF b >= 194 /\ b <= 223 THEN 2
    ELSE IF b >= 224 /\ b <= 239 THEN 3
    ELSE IF b >= 240 /\ b <= 244 THEN 4
    ELSE 0

\* the second byte is in the range its lead byte allows
Utf8Second(s) ==
    /\ Len(s) >= 2
    /\ s[2] >= (IF s[1] = 224 THEN 160 ELSE IF s[1] = 240 THEN 144 ELSE 128)
    /\ s[2] <= (IF s[1] = 237 THEN 159 ELSE IF s[1] = 244 THEN 143 ELSE 191)

\* number of leading bytes of s that form a valid sequence of width w, 0 when
\* they do not
Utf8Valid(s, w) ==
    IF w = 1 THEN 1
    ELSE IF w = 2 /\ Utf8Second(s) THEN 2
    ELSE IF w = 3 /\ Utf8Second(s) /\ Len(s) >= 3 /\ IsCont(s[3]) THEN 3
    ELSE IF w = 4 /\ Utf8Second(s) /\ Len(s) >= 4 /\ IsCont(s[3]) /\ IsCont(s[4]) THEN 4
    ELSE 0

\* length of the maximal invalid part at the head of s, w the announced width
Utf8Invalid(s, w) ==
    IF w <= 1 \/ ~Utf8Second(s) THEN 1
    ELSE IF w = 2 \/ ~(Len(s) >= 3 /\ IsCont(s[3])) THEN 2
    ELSE 3

\* what from_utf8_lossy emits for the head of s and how many bytes it consumes;
\* v = Utf8Valid, x = Utf8Invalid
Utf8Head(s, v, x) ==
    IF v > 0 THEN [out |-> SubSeq(s, 1, v), n |-> v]
    ELSE [out |-> UTF8_REPLACEMENT, n |-> x]

\* String::from_utf8_lossy: valid UTF-8 sequences are kept, every maximal
\* invalid part becomes U+FFFD (EF BF BD)
RECURSIVE Utf8LossyFrom(_, _)
Utf8LossyFrom(s, h) ==
    IF Len(s) <= h.n THEN h.out
    ELSE h.out \o Utf8LossyFrom(SubSeq(s, h.n + 1, Len(s)),
                                Utf8Head(SubSeq(s, h.n + 1, Len(s)),
                                         Utf8Valid(SubSeq(s, h.n + 1, Len(s)),
                                                   Utf8Width(s[h.n + 1])),
                                         Utf8Invalid(SubSeq(s, h.n + 1, Len(s)),
                                                     Utf8Width(s[h.n + 1]))))

Utf8Lossy(s) == Utf8LossyFrom(s, [out |-> << >>, n |-> 0])

\* buf.iter().position(|&b| b == 0).unwrap_or(buf.len())
RECURSIVE NulPosFrom(_, _)
NulPosFrom(buf, i) ==
    IF i >= Len(buf) THEN Len(buf)
    ELSE IF At(buf, i) = 0 THEN i
    ELSE NulPosFrom(buf, i + 1)

\* Reply::cstr_from_buf (the same in browse.rs, resolve.rs and addrinfo.rs)
cstr_from_buf(buf) == Utf8Lossy(Slice(buf, 0, NulPosFrom(buf, 0)))

\* the from_bytes idiom `let x = cstr_from_buf(&buf[pos..]); pos += x.len() + 1;`:
\* the string and the position after it
StrThenPos(str, at) == [s |-> str, next |-> at + Len(str) + 1]

ReadCStr(buf, at) == StrThenPos(cstr_from_buf(SliceFrom(buf, at)), at)

----------------------------------------------------------------------------
(* operation/browse.rs *)

\* browse::Reply::from_bytes from service_domain on
BrowseFromType(buf, header, n, t) ==
    IF t.next > Len(buf) THEN [kind |-> "panic"]
    ELSE [kind |-> "ok",
          header |-> header,
          service_name |-> n.s,
          service_type |-> t.s,
          service_domain |-> cstr_from_buf(SliceFrom(buf, t.next))]

\* browse::Reply::from_bytes from service_type on; &buf[pos..] panics when
\* pos > buf.len()
BrowseFromName(buf, header, n) ==
    IF n.next > Len(buf) THEN [kind |-> "panic"]
    ELSE BrowseFromType(buf, header, n, ReadCStr(buf, n.next))

\* browse::Reply::from_bytes from service_name on
BrowseFromHeader(buf, header) ==
    IF header.kind = "err" THEN [kind |-> "err"]
    ELSE BrowseFromName(buf, header, ReadCStr(buf, 12))

\* browse::Reply::from_bytes
BrowseReply_from_bytes(buf) == BrowseFromHeader(buf, ReplyHeader_from_bytes(buf))

\* browse::Reply::is_add
is_add(reply) == \E i \in 1..Len(reply.header.flags) : reply.header.flags[i] = "add"

----------------------------------------------------------------------------
(* operation/resolve.rs *)

Digits3(d) == << 92, 48 + (d \div 100), 48 + ((d \div 10) % 10), 48 + (d % 10) >>

RECURSIVE EscapeTable(_, _)
EscapeTable(from, to) ==
    IF from > to THEN << >> ELSE Digits3(from) \o EscapeTable(from + 1, to)

\* the string constant "\000\001 ... \031"
ESCAPED_BYTE_SMALL == EscapeTable(0, 31)

\* the string constant "\127\128 ... \255"
ESCAPED_BYTE_LARGE == EscapeTable(127, 255)

\* variant of escape_byte whose offset into the large table counts from b'~'
escape_byte_FromTilde(b) ==
    IF b < 32
    THEN Slice(ESCAPED_BYTE_SMALL, b * 4, b * 4 + 4)
    ELSE Slice(ESCAPED_BYTE_LARGE, (b - 126) * 4, (b - 126) * 4 + 4)

\* escape_byte (called only for b < b' ' or b > b'~')
escape_byte(b) ==
    IF b < 32
    THEN Slice(ESCAPED_BYTE_SMALL, b * 4, b * 4 + 4)
    ELSE Slice(ESCAPED_BYTE_LARGE, (b - 127) * 4, (b - 127) * 4 + 4)

\* one iteration of the for loop of unpack_string, b = slice[i]
EscapeStep(slice, i, consumed, s, b) ==
    IF b = 34 \/ b = 92
    THEN [consumed |-> i + 1,
          s |-> s \o Utf8Lossy(Slice(slice, consumed, i)) \o << 92, b >>]
    ELSE IF b < 32 \/ b > 126
    THEN [consumed |-> i + 1,
          s |-> s \o Utf8Lossy(Slice(slice, consumed, i)) \o escape_byte(b)]
    ELSE [consumed |-> consumed, s |-> s]

\* the for loop of unpack_string over slice, from index i on; acc = [consumed, s]
RECURSIVE EscapeLoop(_, _, _)
EscapeLoop(slice, i, acc) ==
    IF i >= Len(slice) THEN acc
    ELSE EscapeLoop(slice, i + 1, EscapeStep(slice, i, acc.consumed, acc.s, At(slice, i)))

\* unpack_string after the loop; off is the offset after the item
UnpackEscaped(slice, off, r) ==
    IF r.consumed = 0
    THEN [kind |-> "ok", s |-> Utf8Lossy(slice), off |-> off]
    ELSE [kind |-> "ok", s |-> r.s \o Utf8Lossy(SliceFrom(slice, r.consumed)), off |-> off]

\* unpack_string after the length byte l has been read; off is the data offset
UnpackData(msg, off, l) ==
    IF off + l > Len(msg) THEN [kind |-> "err"]
    ELSE UnpackEscaped(Slice(msg, off, off + l), off + l,
                       EscapeLoop(Slice(msg, off, off + l), 0,
                                  [consumed |-> 0, s |-> << >>]))

\* unpack_string: Ok((String, new offset)) or Err
unpack_string(msg, off) ==
    IF off + 1 > Len(msg) THEN [kind |-> "err"]
    ELSE UnpackData(msg, off + 1, At(msg, off))

\* variant of unpack_txt's match that fails whenever an item fails
UnpackTxtStep_AllOrNothing(acc, r) ==
    IF r.kind = "ok" THEN [kind |-> "ok", stop |-> FALSE,
                           txts |-> Append(acc.txts, r.s), off |-> r.off]
    ELSE [kind |-> "err", stop |-> TRUE]

\* unpack_txt: the match on unpack_string's result r at offset; acc = [txts, off]
UnpackTxtStep(acc, r) ==
    IF r.kind = "ok" THEN [kind |-> "ok", stop |-> FALSE,
                           txts |-> Append(acc.txts, r.s), off |-> r.off]
    ELSE IF acc.txts = << >> THEN [kind |-> "err", stop |-> TRUE]
    ELSE [kind |-> "ok", stop |-> TRUE, txts |-> acc.txts, off |-> acc.off]

\* the while loop of unpack_txt
RECURSIVE UnpackTxtLoop(_, _)
UnpackTxtLoop(msg, acc) ==
    IF acc.stop \/ ~(acc.off < Len(msg)) THEN acc
    ELSE UnpackTxtLoop(msg, UnpackTxtStep(acc, unpack_string(msg, acc.off)))

\* unpack_txt: kind "ok" with txts and the final offset off, or kind "err"
unpack_txt(msg, offset) ==
    UnpackTxtLoop(msg, [kind |-> "ok", stop |-> FALSE, txts |-> << >>, off |-> offset])

\* resolve::Reply::from_bytes: the result, t = unpack_txt's
ResolveFromTxt(f, h, port, t) ==
    IF t.kind = "err" THEN [kind |-> "err"]
    ELSE [kind |-> "ok", full_name |-> f.s, host_target |-> h.s, port |-> port,
          txt_data |-> t.txts]

\* variant of resolve::Reply::from_bytes that cuts txt_len down to the body
ResolveFromTxtLen_Clipped(buf, f, h, port, txt_len, offset) ==
    ResolveFromTxt(f, h, port,
                   unpack_txt(Slice(buf, offset, Min(offset + txt_len, Len(buf))), 0))

\* resolve::Reply::from_bytes from `if offset + txt_len > buf.len()` on
ResolveFromTxtLen(buf, f, h, port, txt_len, offset) ==
    IF offset + txt_len > Len(buf) THEN [kind |-> "err"]
    ELSE ResolveFromTxt(f, h, port, unpack_txt(Slice(buf, offset, offset + txt_len), 0))

\* resolve::Reply::from_bytes from the port on
ResolveFromHost(buf, f, h) ==
    IF h.next + 2 >= Len(buf) THEN [kind |-> "err"]
    ELSE IF h.next + 2 + 2 > Len(buf) THEN [kind |-> "err"]
    ELSE ResolveFromTxtLen(buf, f, h, U16At(buf, h.next), U16At(buf, h.next + 2),
                           h.next + 4)

\* resolve::Reply::from_bytes from host_target on
ResolveFromName(buf, f) ==
    IF f.next >= Len(buf) THEN [kind |-> "err"]
    ELSE ResolveFromHost(buf, f, ReadCStr(buf, f.next))

\* resolve::Reply::from_bytes from full_name on
ResolveFromHeader(buf, header) ==
    IF header.kind = "err" THEN [kind |-> "err"]
    ELSE IF 12 >= Len(buf) THEN [kind |-> "err"]
    ELSE ResolveFromName(buf, ReadCStr(buf, 12))

\* resolve::Reply::from_bytes
ResolveReply_from_bytes(buf) == ResolveFromHeader(buf, ReplyHeader_from_bytes(buf))

----------------------------------------------------------------------------
(* operation/addrinfo.rs *)

\* addrinfo::Reply::from_bytes from the RDATA length check on
AddrInfoFromRr(buf, header, n, rrtype, rrclass, rdlen, offset) ==
    IF Len(buf) < offset + rdlen + 4 THEN [kind |-> "err"]
    ELSE [kind |-> "ok",
          header |-> header,
          name |-> n.s,
          rrtype |-> rrtype,
          rrclass |-> rrclass,
          rdlen |-> rdlen,
          rdata |-> Slice(buf, offset, offset + rdlen),
          ttl |-> U32At(buf, offset + rdlen)]

\* addrinfo::Reply::from_bytes from the RR fields on
AddrInfoFromName(buf, header, n) ==
    IF Len(buf) < n.next + 6 THEN [kind |-> "err"]
    ELSE AddrInfoFromRr(buf, header, n, U16At(buf, n.next), U16At(buf, n.next + 2),
                        U16At(buf, n.next + 4), n.next + 6)

\* addrinfo::Reply::from_bytes from name on
AddrInfoFromHeader(buf, header) ==
    IF header.kind = "err" THEN [kind |-> "err"]
    ELSE AddrInfoFromName(buf, header, ReadCStr(buf, 12))

\* addrinfo::Reply::from_bytes.  &buf[0..12] panics when buf.len() < 12.
AddrInfoReply_from_bytes(buf) ==
    IF Len(buf) < 12 THEN [kind |-> "panic"]
    ELSE AddrInfoFromHeader(buf, ReplyHeader_from_bytes(Slice(buf, 0, 12)))

----------------------------------------------------------------------------
(* ipc/mod.rs: the reply parsers.  A parser that reaches its event send    *)
(* returns kind "send" with the event and the frame size it will report    *)
(* once the send has completed.                                            *)

\* variant of Ipc::parse_browse_reply that returns Ok(data_length)
BrowseEvent_SizeOfBody(browse_reply, data_length) ==
    IF browse_reply.kind # "ok" THEN [kind |-> browse_reply.kind]
    ELSE [kind |-> "send",
          ev |-> [type |-> IF is_add(browse_reply)
                           THEN "ServiceAdded" ELSE "ServiceRemoved",
                  service |-> [name |-> browse_reply.service_name,
                               service_type |-> browse_reply.service_type,
                               domain |-> browse_reply.service_domain]],
          size |-> data_length]

\* Ipc::parse_browse_reply after Reply::from_bytes
BrowseEvent(browse_reply, data_length) ==
    IF browse_reply.kind # "ok" THEN [kind |-> browse_reply.kind]
    ELSE [kind |-> "send",
          ev |-> [type |-> IF is_add(browse_reply)
                           THEN "ServiceAdded" ELSE "ServiceRemoved",
                  service |-> [name |-> browse_reply.service_name,
                               service_type |-> browse_reply.service_type,
                               domain |-> browse_reply.service_domain]],
          size |-> IPC_HEADER_SIZE + data_length]

\* Ipc::parse_browse_reply up to its event_sender.send
parse_browse_reply(buf, data_length) ==
    IF IPC_HEADER_SIZE + data_length > Len(buf) THEN [kind |-> "incomplete"]
    ELSE BrowseEvent(BrowseReply_from_bytes(
                         Slice(buf, IPC_HEADER_SIZE, IPC_HEADER_SIZE + data_length)),
                     data_length)

\* Ipc::parse_resolve_reply after Reply::from_bytes
ResolveEvent(resolve_reply, data_length) ==
    IF resolve_reply.kind # "ok" THEN [kind |-> resolve_reply.kind]
    ELSE [kind |-> "send",
          ev |-> [type |-> "ServiceResolved",
                  resolved |-> [full_name |-> resolve_reply.full_name,
                                host_target |-> resolve_reply.host_target,
                                port |-> resolve_reply.port,
                                txt_data |-> resolve_reply.txt_data]],
          size |-> IPC_HEADER_SIZE + data_length]

\* Ipc::parse_resolve_reply up to its event_sender.send
parse_resolve_reply(buf, data_length) ==
    IF IPC_HEADER_SIZE + data_length > Len(buf) THEN [kind |-> "incomplete"]
    ELSE ResolveEvent(ResolveReply_from_bytes(
                          Slice(buf, IPC_HEADER_SIZE, IPC_HEADER_SIZE + data_length)),
                      data_length)

\* Ipc::parse_address_info_reply after Reply::from_bytes
AddressInfoEvent(addrinfo_reply, data_length) ==
    IF addrinfo_reply.kind # "ok" THEN [kind |-> addrinfo_reply.kind]
    ELSE IF Len(addrinfo_reply.rdata) \notin {4, 16} THEN [kind |-> "err"]
    ELSE [kind |-> "send",
          ev |-> [type |-> "AddressInfoResolved",
                  addr_info |-> [hostname |-> addrinfo_reply.name,
                                 address |-> addrinfo_reply.rdata]],
          size |-> IPC_HEADER_SIZE + data_length]

\* Ipc::parse_address_info_reply up to its event_sender.send
parse_address_info_reply(buf, data_length) ==
    IF IPC_HEADER_SIZE + data_length > Len(buf) THEN [kind |-> "incomplete"]
    ELSE AddressInfoEvent(AddrInfoReply_from_bytes(
                              Slice(buf, IPC_HEADER_SIZE, IPC_HEADER_SIZE + data_length)),
                          data_length)

\* Ipc::parse_frame after IpcMessageHeader::from
FrameDispatch(buf, header) ==
    IF header.kind # "ok" THEN [kind |-> "err"]
    ELSE IF header.operation.dir # "Reply" THEN [kind |-> "err"]
    ELSE IF header.operation.op = "Browse"
         THEN parse_browse_reply(buf, header.data_length)
    ELSE IF header.operation.op = "Resolve"
         THEN parse_resolve_reply(buf, header.data_length)
    ELSE IF header.operation.op = "AddressInfo"
         THEN parse_address_info_reply(buf, header.data_length)
    ELSE [kind |-> "err"]

\* Ipc::parse_frame: Err(FrameParsingFailed) is "err", Err(IncompleteFrame) is
\* "incomplete"
parse_frame(buf) == FrameDispatch(buf, IpcMessageHeader_from(buf))

----------------------------------------------------------------------------
(* The daemon's side of the socket: the reply frames it may write.  Each   *)
(* catalogue entry holds the frame's bytes and the event the wire format   *)
(* assigns to it ("none": no event).                                       *)

CStr(str) == str \o << 0 >>

ReplyHeaderBytes(flags) == BE32(flags) \o BE32(0) \o BE32(0)

ReplyFrame(operation, body) ==
    BE32(1) \o BE32(Len(body)) \o BE32(0) \o BE32(operation)
        \o << 0, 0, 0, 0, 0, 0, 0, 17 >> \o BE32(0) \o body

BrowseBody(flags, name, type, domain) ==
    ReplyHeaderBytes(flags) \o CStr(name) \o CStr(type) \o CStr(domain)

ResolveBody(flags, full_name, host_target, port, txt) ==
    ReplyHeaderBytes(flags) \o CStr(full_name) \o CStr(host_target)
        \o BE16(port) \o BE16(Len(txt)) \o txt

AddrInfoBody(flags, name, rrtype, rdata, ttl) ==
    ReplyHeaderBytes(flags) \o CStr(name) \o BE16(rrtype) \o BE16(1)
        \o BE16(Len(rdata)) \o rdata \o BE32(ttl)

NoEvent == [type |-> "none"]

SvcABC == [name |-> << 97 >>, service_type |-> << 98 >>, domain |-> << 99 >>]

Rdata16 == << 254, 128, 0, 0, 0, 0, 0, 0, 0, 0, 0, 0, 0, 1, 0, 7 >>

ResolvedWith(txt_data) ==
    [type |-> "ServiceResolved",
     resolved |-> [full_name |-> << 115 >>, host_target |-> << 104 >>,
                   port |-> 8080, txt_data |-> txt_data]]

Catalogue ==
    << \* 1: Browse reply, flags = Add
       [bytes |-> ReplyFrame(66, BrowseBody(2, << 97 >>, << 98 >>, << 99 >>)),
        operation |-> 66, flags |-> 2,
        event |-> [type |-> "ServiceAdded", service |-> SvcABC]],
       \* 2: Browse reply, flags = MoreComing (no Add)
       [bytes |-> ReplyFrame(66, BrowseBody(1, << 97 >>, << 98 >>, << 99 >>)),
        operation |-> 66, flags |-> 1,
        event |-> [type |-> "ServiceRemoved", service |-> SvcABC]],
       \* 3: AddressInfo reply, flags = Add, A record 10.0.1.7
       [bytes |-> ReplyFrame(72, AddrInfoBody(2, << 104 >>, 1, << 10, 0, 1, 7 >>, 120)),
        operation |-> 72, flags |-> 2, rdata |-> << 10, 0, 1, 7 >>,
        event |-> [type |-> "AddressInfoResolved",
                   addr_info |-> [hostname |-> << 104 >>,
                                  address |-> << 10, 0, 1, 7 >>]]],
       \* 4: Browse reply, flags = 0
       [bytes |-> ReplyFrame(66, BrowseBody(0, << 97 >>, << 98 >>, << 99 >>)),
        operation |-> 66, flags |-> 0,
        event |-> [type |-> "ServiceRemoved", service |-> SvcABC]],
       \* 5: Resolve reply, flags = 0, port 8080, one TXT item "k=v"
       [bytes |-> ReplyFrame(67, ResolveBody(0, << 115 >>, << 104 >>, 8080,
                                             << 3, 107, 61, 118 >>)),
        operation |-> 67, flags |-> 0,
        event |-> [type |-> "ServiceResolved",
                   resolved |-> [full_name |-> << 115 >>, host_target |-> << 104 >>,
                                 port |-> 8080, txt_data |-> << << 107, 61, 118 >> >>]]],
       \* 6: 28 bytes with operation code 99
       [bytes |-> ReplyFrame(99, << >>), operation |-> 99, flags |-> 0,
        event |-> NoEvent],
       \* 7: Browse reply whose 4-byte body is shorter than the reply header
       [bytes |-> ReplyFrame(66, BE32(2)), operation |-> 66, flags |-> 2,
        event |-> NoEvent],
       \* 8: Query reply (operation 68), a known reply the client does not handle
       [bytes |-> ReplyFrame(68, ReplyHeaderBytes(2)), operation |-> 68, flags |-> 2,
        event |-> NoEvent],
       \* 9: Browse reply whose body ends in a name without its NUL
       [bytes |-> ReplyFrame(66, ReplyHeaderBytes(2) \o << 97 >>),
        operation |-> 66, flags |-> 2,
        event |-> NoEvent],
       \* 10: AddressInfo reply whose 4-byte body is shorter than the reply header
       [bytes |-> ReplyFrame(72, BE32(2)), operation |-> 72, flags |-> 2,
        event |-> NoEvent],
       \* 11: AddressInfo reply, flags = Add, AAAA record fe80::1:7
       [bytes |-> ReplyFrame(72, AddrInfoBody(2, << 104 >>, 28, Rdata16, 120)),
        operation |-> 72, flags |-> 2, rdata |-> Rdata16,
        event |-> [type |-> "AddressInfoResolved",
                   addr_info |-> [hostname |-> << 104 >>, address |-> Rdata16]]],
       \* 12: AddressInfo reply, flags = Add, 5 bytes of rdata
       [bytes |-> ReplyFrame(72, AddrInfoBody(2, << 104 >>, 1, << 10, 0, 1, 7, 9 >>, 120)),
        operation |-> 72, flags |-> 2, rdata |-> << 10, 0, 1, 7, 9 >>,
        event |-> NoEvent],
       \* 13: AddressInfo reply, flags = 0 (the record went away), A record 10.0.1.7
       [bytes |-> ReplyFrame(72, AddrInfoBody(0, << 104 >>, 1, << 10, 0, 1, 7 >>, 120)),
        operation |-> 72, flags |-> 0, rdata |-> << 10, 0, 1, 7 >>,
        event |-> [type |-> "AddressInfoResolved",
                   addr_info |-> [hostname |-> << 104 >>,
                                  address |-> << 10, 0, 1, 7 >>]]],
       \* 14: Resolve reply, flags = Add, TXT items "k=v" and "x"
       [bytes |-> ReplyFrame(67, ResolveBody(2, << 115 >>, << 104 >>, 8080,
                                             << 3, 107, 61, 118, 1, 120 >>)),
        operation |-> 67, flags |-> 2, txt |-> << 3, 107, 61, 118, 1, 120 >>,
        event |-> ResolvedWith(<< << 107, 61, 118 >>, << 120 >> >>)],
       \* 15: Resolve reply, flags = Add, TXT item "k=v" and an item whose length
       \* byte 5 points past the TXT region
       [bytes |-> ReplyFrame(67, ResolveBody(2, << 115 >>, << 104 >>, 8080,
                                             << 3, 107, 61, 118, 5, 120 >>)),
        operation |-> 67, flags |-> 2, txt |-> << 3, 107, 61, 118, 5, 120 >>,
        event |-> ResolvedWith(<< << 107, 61, 118 >> >>)],
       \* 16: Resolve reply, flags = Add, the first TXT item's length byte 5 points
       \* past the TXT region
       [bytes |-> ReplyFrame(67, ResolveBody(2, << 115 >>, << 104 >>, 8080, << 5, 120 >>)),
        operation |-> 67, flags |-> 2, txt |-> << 5, 120 >>,
        event |-> NoEvent],
       \* 17: Resolve reply, flags = Add, txt_len = 0
       [bytes |-> ReplyFrame(67, ResolveBody(2, << 115 >>, << 104 >>, 8080, << >>)),
        operation |-> 67, flags |-> 2, txt |-> << >>,
        event |-> ResolvedWith(<< >>)],
       \* 18: AddressInfo reply, flags = Add, rdlen = 16 with 8 bytes left in the body
       [bytes |-> ReplyFrame(72, ReplyHeaderBytes(2) \o CStr(<< 104 >>) \o BE16(1)
                                     \o BE16(1) \o BE16(16) \o << 10, 0, 1, 7 >>
                                     \o BE32(120)),
        operation |-> 72, flags |-> 2, declared |-> 16,
        event |-> NoEvent],
       \* 19: Resolve reply, flags = Add, txt_len = 10 with 4 bytes left in the body
       [bytes |-> ReplyFrame(67, ReplyHeaderBytes(2) \o CStr(<< 115 >>) \o CStr(<< 104 >>)
                                     \o BE16(8080) \o BE16(10) \o << 3, 107, 61, 118 >>),
        operation |-> 67, flags |-> 2, declared |-> 10,
        event |-> NoEvent] >>

\* the AddressInfo replies: addresses of both families, an rdata of neither
\* length, and the reply without the Add flag
AddrKinds == {3, 11, 12, 13}

\* the Resolve replies with TXT regions: whole items, an item cut short after a
\* whole one, a first item cut short, and no items
TxtKinds == {14, 15, 16, 17}

\* replies whose rdlen or txt_len announces more bytes than the body holds,
\* together with a whole AddressInfo and a whole Resolve reply
TruncKinds == {3, 14, 18, 19}

\* a Browse and an AddressInfo reply, for the streams read in pieces of every size
SplitKinds == {1, 3}

\* the catalogue entries the daemon draws its output from: the replies to the
\* client's own requests and the malformed frames of the error scenarios
StreamKinds == 1..7

\* a Browse reply together with the frames of the fault scenarios: a reply the
\* client does not handle, and bodies cut short
FaultKinds == {1, 8, 9, 10}

\* bounds: the number of frames the daemon writes, the largest channel capacity
MaxFrames == 2

MaxCapacity == 1

RECURSIVE SeqsUpTo(_, _)
SeqsUpTo(S, n) ==
    IF n = 0 THEN { << >> }
    ELSE LET shorter == SeqsUpTo(S, n - 1)
         IN  shorter \cup { Append(q, x) : q \in { t \in shorter : Len(t) = n - 1 }, x \in S }

\* try_read(&mut read_buffer) with read_buffer: [u8; 2048]
READ_BUFFER_SIZE == 2048

\* every size a successful read may return when avail bytes are pending
SplitSizes(avail) == 1..Min(avail, READ_BUFFER_SIZE)

\* the sizes a successful read may return when avail bytes are pending: one
\* byte, the 28 bytes of a header, or all of them
ReadSizes(avail) ==
    { n \in { 1, IPC_HEADER_SIZE, avail } : n >= 1 /\ n <= Min(avail, READ_BUFFER_SIZE) }

----------------------------------------------------------------------------
(* ipc/mod.rs: Ipc::listener *)

\* variant of AfterLoop without buffer.drain(0..pos): the consumed frames stay
\* at the front of the buffer
AfterLoop_NoDrain(buf, p, b) ==
    [pc |-> "select", buffer |-> buf, base |-> b]

\* the listener's locals after the drain loop: buffer.drain(0..pos) when pos > 0
AfterLoop(buf, p, b) ==
    [pc |-> "select", buffer |-> SliceFrom(buf, p), base |-> b + p]

\* The drain loop `while pos < buffer.len()` parses a buffer that no send
\* changes, so one pass over it is a function of the buffer: DrainFrom gives the
\* events the pass sends, in order, each with its frame size and stream offset,
\* and the locals the pass ends with. sends holds the events of the frames before
\* pos = p; b is the stream offset of buf[0].
RECURSIVE DrainFrom(_, _, _, _)

\* variant of DrainMatch whose error arm breaks without buffer.clear()
DrainMatch_KeepsBuffer(buf, p, b, sends, r) ==
    IF r.kind = "send"
    THEN DrainFrom(buf, p + r.size, b,
                   Append(sends, [ev |-> r.ev, size |-> r.size, at |-> b + p]))
    ELSE IF r.kind = "panic"
    THEN [sends |-> sends,
          end |-> [pc |-> "panicked", buffer |-> << >>, base |-> b + Len(buf)]]
    ELSE [sends |-> sends, end |-> AfterLoop(buf, p, b)]

\* variant of DrainMatch whose error arm ends the listener task
DrainMatch_ErrStops(buf, p, b, sends, r) ==
    IF r.kind = "send"
    THEN DrainFrom(buf, p + r.size, b,
                   Append(sends, [ev |-> r.ev, size |-> r.size, at |-> b + p]))
    ELSE IF r.kind = "incomplete"
    THEN [sends |-> sends, end |-> AfterLoop(buf, p, b)]
    ELSE [sends |-> sends,
          end |-> [pc |-> "panicked", buffer |-> << >>, base |-> b + Len(buf)]]

\* variant of DrainMatch whose IncompleteFrame arm sets pos = 0 before its break
DrainMatch_IncompleteRewinds(buf, p, b, sends, r) ==
    IF r.kind = "send"
    THEN DrainFrom(buf, p + r.size, b,
                   Append(sends, [ev |-> r.ev, size |-> r.size, at |-> b + p]))
    ELSE IF r.kind = "incomplete"
    THEN [sends |-> sends, end |-> AfterLoop(buf, 0, b)]
    ELSE IF r.kind = "err"
    THEN [sends |-> sends, end |-> AfterLoop(<< >>, 0, b + Len(buf))]
    ELSE [sends |-> sends,
          end |-> [pc |-> "panicked", buffer |-> << >>, base |-> b + Len(buf)]]

\* variant of DrainMatch whose error arm skips one header and parses on
DrainMatch_ErrSkipsHeader(buf, p, b, sends, r) ==
    IF r.kind = "send"
    THEN DrainFrom(buf, p + r.size, b,
                   Append(sends, [ev |-> r.ev, size |-> r.size, at |-> b + p]))
    ELSE IF r.kind = "incomplete"
    THEN [sends |-> sends, end |-> AfterLoop(buf, p, b)]
    ELSE IF r.kind = "err"
    THEN DrainFrom(buf, Min(p + IPC_HEADER_SIZE, Len(buf)), b, sends)
    ELSE [sends |-> sends,
          end |-> [pc |-> "panicked", buffer |-> << >>, base |-> b + Len(buf)]]

\* the match on parse_frame's result r at pos = p
DrainMatch(buf, p, b, sends, r) ==
    IF r.kind = "send"
    THEN DrainFrom(buf, p + r.size, b,
                   Append(sends, [ev |-> r.ev, size |-> r.size, at |-> b + p]))
    ELSE IF r.kind = "incomplete"
    THEN [sends |-> sends, end |-> AfterLoop(buf, p, b)]
    ELSE IF r.kind = "err"
    THEN [sends |-> sends, end |-> AfterLoop(<< >>, 0, b + Len(buf))]
    ELSE [sends |-> sends,
          end |-> [pc |-> "panicked", buffer |-> << >>, base |-> b + Len(buf)]]

DrainFrom(buf, p, b, sends) ==
    IF ~(p < Len(buf)) THEN [sends |-> sends, end |-> AfterLoop(buf, p, b)]
    ELSE DrainMatch(buf, p, b, sends, parse_frame(SliceFrom(buf, p)))

\* the number of times the body of the drain loop runs on buf from pos = p on:
\* once for every frame parsed and once more when the loop is left by a break
RECURSIVE DrainCount(_, _)

\* the body of the drain loop at pos = p, r = parse_frame's result
DrainCountMatch(buf, p, r) ==
    IF r.kind = "send" THEN 1 + DrainCount(buf, p + r.size) ELSE 1

DrainCount(buf, p) ==
    IF ~(p < Len(buf)) THEN 0
    ELSE DrainCountMatch(buf, p, parse_frame(SliceFrom(buf, p)))

\* the loop body is done and the listener's locals are l; a panic unwinds the
\* task and drops its sender
SetLocals(l) ==
    /\ pc' = l.pc
    /\ buffer' = l.buffer
    /\ pos' = 0
    /\ base' = l.base
    /\ pending' = << >>
    /\ after' = << >>
    /\ sender' = IF l.pc = "panicked" THEN "dropped" ELSE sender

\* the drain loop runs on buf: it suspends in its first send, or ends at once
StartPass(buf, pass) ==
    IF pass.sends = << >>
    THEN SetLocals(pass.end)
    ELSE /\ pc' = "send"
         /\ buffer' = buf
         /\ pos' = 0
         /\ pending' = pass.sends
         /\ after' = pass.end
         /\ UNCHANGED <<base, sender>>

\* variant of Exit in which a clone of the event_sender outlives the listener
Exit_KeepsSender ==
    /\ pc' = "exited"
    /\ buffer' = << >>
    /\ pos' = 0
    /\ base' = base + Len(buffer)
    /\ pending' = << >>
    /\ after' = << >>
    /\ sender' = sender

\* the listener returns: its locals and the event_sender it owns are dropped
Exit ==
    /\ pc' = "exited"
    /\ buffer' = << >>
    /\ pos' = 0
    /\ base' = base + Len(buffer)
    /\ pending' = << >>
    /\ after' = << >>
    /\ sender' = "dropped"

\* select! takes the cancelled() branch
ReaderCancelled ==
    /\ pc = "select"
    /\ cancel_token
    /\ Exit
    /\ UNCHANGED <<frames, written, wire, responder, capacity, chan, rx, received,
                   published, lost, cancel_token, closePc>>
    /\ UNCHANGED <<conn, ipc, codec, wvars>>

\* variant of ReaderRead in which the read is not held back by a send in progress
ReaderRead_WhileSending(n) ==
    /\ pc \in {"select", "send"}
    /\ wire' = SliceFrom(wire, n)
    /\ IF pc = "send"
       THEN /\ buffer' = buffer \o Slice(wire, 0, n)
            /\ UNCHANGED <<pc, pos, base, pending, after, sender>>
       ELSE \E pass \in { DrainFrom(buffer \o Slice(wire, 0, n), 0, base, << >>) } :
                StartPass(buffer \o Slice(wire, 0, n), pass)
    /\ UNCHANGED <<frames, written, responder, capacity, chan, rx, received,
                   published, lost, cancel_token, closePc>>
    /\ UNCHANGED <<conn, ipc, codec, wvars>>

\* the first frame boundary of the daemon's output at or after stream offset b;
\* start is the offset of frame k
RECURSIVE BoundaryFrom(_, _, _)
BoundaryFrom(b, k, start) ==
    IF start >= b \/ k > Len(frames) THEN start
    ELSE BoundaryFrom(b, k + 1, start + Len(Catalogue[frames[k]].bytes))

\* variant of ReaderRead that, on an empty buffer, drops the bytes read up to the
\* next frame boundary before it parses
ReaderRead_SkipsToBoundary(n) ==
    /\ pc = "select"
    /\ wire' = SliceFrom(wire, n)
    /\ \E skip \in { IF buffer = << >> THEN Min(BoundaryFrom(base, 1, 0) - base, n) ELSE 0 } :
           \E pass \in { DrainFrom(buffer \o Slice(wire, skip, n), 0, base + skip, << >>) } :
               IF pass.sends = << >>
               THEN SetLocals(pass.end)
               ELSE /\ pc' = "send"
                    /\ buffer' = buffer \o Slice(wire, skip, n)
                    /\ pos' = 0
                    /\ base' = base + skip
                    /\ pending' = pass.sends
                    /\ after' = pass.end
                    /\ UNCHANGED sender
    /\ UNCHANGED <<frames, written, responder, capacity, chan, rx, received,
                   published, lost, cancel_token, closePc>>
    /\ UNCHANGED <<conn, ipc, codec, wvars>>

\* select! takes the readable() branch and try_read returns Ok(n), n > 0
ReaderRead(n) ==
    /\ pc = "select"
    /\ wire' = SliceFrom(wire, n)
    /\ \E pass \in { DrainFrom(buffer \o Slice(wire, 0, n), 0, base, << >>) } :
           StartPass(buffer \o Slice(wire, 0, n), pass)
    /\ UNCHANGED <<frames, written, responder, capacity, chan, rx, received,
                   published, lost, cancel_token, closePc>>
    /\ UNCHANGED <<conn, ipc, codec, wvars>>

\* try_read returns Ok(0): the peer has closed and nothing is left to read
ReaderEof ==
    /\ pc = "select"
    /\ wire = << >>
    /\ Exit
    /\ UNCHANGED <<frames, written, wire, responder, capacity, chan, rx, received,
                   published, lost, cancel_token, closePc>>
    /\ UNCHANGED <<conn, ipc, codec, wvars>>

\* try_read returns Err(WouldBlock): continue
ReaderWouldBlock ==
    /\ pc = "select"
    /\ wire = << >>
    /\ UNCHANGED vars

\* try_read returns another error
ReaderReadError ==
    /\ pc = "select"
    /\ Exit
    /\ UNCHANGED <<frames, written, wire, responder, capacity, chan, rx, received,
                   published, lost, cancel_token, closePc>>
    /\ UNCHANGED <<conn, ipc, codec, wvars>>

\* variant of ReaderSend over an unbounded channel: the send never waits for room
ReaderSend_Unbounded ==
    /\ pc = "send"
    /\ \/ /\ rx = "dropped"
          /\ lost' = Append(lost, Head(pending).ev)
          /\ UNCHANGED <<chan, published>>
       \/ /\ rx # "dropped"
          /\ chan' = Append(chan, Head(pending).ev)
          /\ published' = Append(published, [ev |-> Head(pending).ev,
                                              at |-> Head(pending).at])
          /\ UNCHANGED lost
    /\ IF Len(pending) = 1
       THEN SetLocals(after)
       ELSE /\ pending' = Tail(pending)
            /\ pos' = pos + Head(pending).size
            /\ UNCHANGED <<pc, buffer, base, after, sender>>
    /\ UNCHANGED <<frames, written, wire, responder, capacity, rx, received,
                   cancel_token, closePc>>
    /\ UNCHANGED <<conn, ipc, codec, wvars>>

\* variant of ReaderSend in which a send to a dropped receiver ends the task
ReaderSend_ExitsOnClosed ==
    /\ pc = "send"
    /\ \/ /\ rx = "dropped"
          /\ lost' = Append(lost, Head(pending).ev)
          /\ Exit
          /\ UNCHANGED <<chan, published>>
       \/ /\ rx # "dropped"
          /\ Len(chan) < capacity
          /\ chan' = Append(chan, Head(pending).ev)
          /\ published' = Append(published, [ev |-> Head(pending).ev,
                                              at |-> Head(pending).at])
          /\ UNCHANGED lost
          /\ IF Len(pending) = 1
             THEN SetLocals(after)
             ELSE /\ pending' = Tail(pending)
                  /\ pos' = pos + Head(pending).size
                  /\ UNCHANGED <<pc, buffer, base, after, sender>>
    /\ UNCHANGED <<frames, written, wire, responder, capacity, rx, received,
                   cancel_token, closePc>>
    /\ UNCHANGED <<conn, ipc, codec, wvars>>

\* event_sender.send(ev).await completes: Ok once the channel has room, Err when
\* the receiver is gone; then the parser returns Ok(size), pos += size, and the
\* loop goes on to its next send or to its end
ReaderSend ==
    /\ pc = "send"
    /\ \/ /\ rx = "dropped"
          /\ lost' = Append(lost, Head(pending).ev)
          /\ UNCHANGED <<chan, published>>
       \/ /\ rx # "dropped"
          /\ Len(chan) < capacity
          /\ chan' = Append(chan, Head(pending).ev)
          /\ published' = Append(published, [ev |-> Head(pending).ev,
                                              at |-> Head(pending).at])
          /\ UNCHANGED lost
    /\ IF Len(pending) = 1
       THEN SetLocals(after)
       ELSE /\ pending' = Tail(pending)
            /\ pos' = pos + Head(pending).size
            /\ UNCHANGED <<pc, buffer, base, after, sender>>
    /\ UNCHANGED <<frames, written, wire, responder, capacity, rx, received,
                   cancel_token, closePc>>
    /\ UNCHANGED <<conn, ipc, codec, wvars>>

----------------------------------------------------------------------------
(* lib.rs: MDnsResponder::new / close, ipc/mod.rs: Ipc::new / close *)

\* the token, the socket halves and the task that Ipc::new creates once
\* UnixStream::connect has succeeded
IpcParts == {"cancel_token", "read_socket", "write_socket", "listen_task"}

\* variant of MDnsResponder::new that connects before it looks at the capacity
New_ConnectsFirst(channel_buffer_size, connected) ==
    /\ responder = "none"
    /\ IF channel_buffer_size = 0
       THEN /\ responder' = "ChannelCreationFailed"
            /\ conn' = IF connected THEN "connected" ELSE "refused"
            /\ UNCHANGED <<capacity, sender, rx, pc, ipc>>
       ELSE IF ~connected
       THEN /\ responder' = "IpcConnectionCreationFailed"
            /\ capacity' = channel_buffer_size
            /\ conn' = "refused"
            /\ sender' = "dropped"
            /\ rx' = "dropped"
            /\ UNCHANGED <<pc, ipc>>
       ELSE /\ responder' = "open"
            /\ capacity' = channel_buffer_size
            /\ conn' = "connected"
            /\ ipc' = IpcParts
            /\ sender' = "alive"
            /\ rx' = "open"
            /\ pc' = "select"
    /\ UNCHANGED <<frames, written, wire, buffer, pos, base, pending, after, chan, received,
                   published, lost, cancel_token, closePc>>
    /\ UNCHANGED <<codec, wvars>>

\* variant of MDnsResponder::new in which Ipc::new creates the token before it
\* connects and the events_sender outlives the failed call
New_KeepsOnFailure(channel_buffer_size, connected) ==
    /\ responder = "none"
    /\ IF channel_buffer_size = 0
       THEN /\ responder' = "ChannelCreationFailed"
            /\ UNCHANGED <<capacity, sender, rx, pc, conn, ipc>>
       ELSE IF ~connected
       THEN /\ responder' = "IpcConnectionCreationFailed"
            /\ capacity' = channel_buffer_size
            /\ conn' = "refused"
            /\ ipc' = {"cancel_token"}
            /\ sender' = "alive"
            /\ rx' = "dropped"
            /\ UNCHANGED pc
       ELSE /\ responder' = "open"
            /\ capacity' = channel_buffer_size
            /\ conn' = "connected"
            /\ ipc' = IpcParts
            /\ sender' = "alive"
            /\ rx' = "open"
            /\ pc' = "select"
    /\ UNCHANGED <<frames, written, wire, buffer, pos, base, pending, after, chan, received,
                   published, lost, cancel_token, closePc>>
    /\ UNCHANGED <<codec, wvars>>

\* MDnsResponder::new(channel_buffer_size), with the outcome of UnixStream::connect.
\* Capacity 0 returns before mpsc::channel and Ipc::new are reached.  A failed
\* connect returns from Ipc::new before the token, the split and the spawn; the
\* events_sender it was given and the events_receiver of new are dropped on the
\* way out.
New(channel_buffer_size, connected) ==
    /\ responder = "none"
    /\ IF channel_buffer_size = 0
       THEN /\ responder' = "ChannelCreationFailed"
            /\ UNCHANGED <<capacity, sender, rx, pc, conn, ipc>>
       ELSE IF ~connected
       THEN /\ responder' = "IpcConnectionCreationFailed"
            /\ capacity' = channel_buffer_size
            /\ conn' = "refused"
            /\ sender' = "dropped"
            /\ rx' = "dropped"
            /\ UNCHANGED <<pc, ipc>>
       ELSE /\ responder' = "open"
            /\ capacity' = channel_buffer_size
            /\ conn' = "connected"
            /\ ipc' = IpcParts
            /\ sender' = "alive"
            /\ rx' = "open"
            /\ pc' = "select"
    /\ UNCHANGED <<frames, written, wire, buffer, pos, base, pending, after, chan, received,
                   published, lost, cancel_token, closePc>>
    /\ UNCHANGED <<codec, wvars>>

\* Ipc::close up to its await: cancel_token.cancel().  close(self) takes the
\* responder by value, so no writer call (&mut self) is in progress.
Close ==
    /\ responder = "open"
    /\ closePc = "idle"
    /\ wpc = "idle"
    /\ cancel_token' = TRUE
    /\ closePc' = "joining"
    /\ UNCHANGED <<frames, written, wire, responder, capacity, pc, buffer, pos, base,
                   pending, after, chan, sender, rx, received, published, lost>>
    /\ UNCHANGED <<conn, ipc, codec, wvars>>

\* Ipc::close: listen_task.await returns; expect() panics on a JoinError
CloseJoin ==
    /\ closePc = "joining"
    /\ pc \in {"exited", "panicked"}
    /\ closePc' = IF pc = "exited" THEN "returned" ELSE "panicked"
    /\ UNCHANGED <<frames, written, wire, responder, capacity, pc, buffer, pos, base,
                   pending, after, chan, sender, rx, received, published, lost,
                   cancel_token>>
    /\ UNCHANGED <<conn, ipc, codec, wvars>>

----------------------------------------------------------------------------
(* The consumer of MDnsResponder::events and the peer *)

\* events.recv() returns Some(event)
ConsumerRecv ==
    /\ rx = "open"
    /\ chan # << >>
    /\ received' = Append(received, Head(chan))
    /\ chan' = Tail(chan)
    /\ UNCHANGED <<frames, written, wire, responder, capacity, pc, buffer, pos, base,
                   pending, after, sender, rx, published, lost, cancel_token, closePc>>
    /\ UNCHANGED <<conn, ipc, codec, wvars>>

\* events.recv() returns None: the channel is empty and its sender is dropped
ConsumerRecvNone ==
    /\ rx = "open"
    /\ chan = << >>
    /\ sender = "dropped"
    /\ rx' = "eos"
    /\ UNCHANGED <<frames, written, wire, responder, capacity, pc, buffer, pos, base,
                   pending, after, chan, sender, received, published, lost, cancel_token,
                   closePc>>
    /\ UNCHANGED <<conn, ipc, codec, wvars>>

\* the consumer drops the receiver; the queued events go with it
ConsumerDrop ==
    /\ rx \in {"open", "eos"}
    /\ rx' = "dropped"
    /\ chan' = << >>
    /\ UNCHANGED <<frames, written, wire, responder, capacity, pc, buffer, pos, base,
                   pending, after, sender, received, published, lost, cancel_token,
                   closePc>>
    /\ UNCHANGED <<conn, ipc, codec, wvars>>

\* the daemon writes its next frame
PeerWrite ==
    /\ responder = "open"
    /\ written < Len(frames)
    /\ written' = written + 1
    /\ wire' = wire \o Catalogue[frames[written + 1]].bytes
    /\ UNCHANGED <<frames, responder, capacity, pc, buffer, pos, base, pending, after,
                   chan, sender, rx, received, published, lost, cancel_token, closePc>>
    /\ UNCHANGED <<conn, ipc, codec, wvars>>

----------------------------------------------------------------------------
(* The writer side: header/mod.rs and request.rs encoders, the request     *)
(* bodies of operation/*.rs, Ipc::write and the write_*_request functions, *)
(* and the MDnsResponder methods that wrap them                            *)

\* IpcFlags::NoErrSd
NO_ERR_SD == 4

\* u64::to_be_bytes, for the contexts of the model (all below 2^31)
BE64(n) == << 0, 0, 0, 0 >> \o BE32(n)

\* the match arms of RequestOperation::to_u32
RequestOperationCodes ==
    [None |-> 0, Connection |-> 1, RegisterRecord |-> 2, RemoveRecord |-> 3,
     Enumeration |-> 4, RegisterService |-> 5, Browse |-> 6, Resolve |-> 7,
     Query |-> 8, ReconfirmRecord |-> 9, AddRecord |-> 10, UpdateRecord |-> 11,
     SetDomain |-> 12, GetProperty |-> 13, PortMapping |-> 14, AddressInfo |-> 15,
     SendBpfObsolete |-> 16, GetPid |-> 17, Release |-> 18,
     ConnectionDelegate |-> 19, Cancel |-> 63]

\* RequestOperation::to_u32
RequestOperation_to_u32(op) == RequestOperationCodes[op]

\* the match arms of ReplyOperation::to_u32
ReplyOperationCodes ==
    [Enumeration |-> 64, RegisterService |-> 65, Browse |-> 66, Resolve |-> 67,
     Query |-> 68, RegisterRecord |-> 69, GetProperty |-> 70, PortMapping |-> 71,
     AddressInfo |-> 72, AsyncError |-> 73]

\* ReplyOperation::to_u32
ReplyOperation_to_u32(op) == ReplyOperationCodes[op]

\* the match on self.operation in IpcMessageHeader::to_bytes
Operation_to_u32(operation) ==
    IF operation.dir = "Request" THEN RequestOperation_to_u32(operation.op)
    ELSE ReplyOperation_to_u32(operation.op)

\* IpcMessageHeader::new
IpcMessageHeader_new(version, data_length, ipc_flags, operation, client_context, reg_index) ==
    [version |-> version, data_length |-> data_length, ipc_flags |-> ipc_flags,
     operation |-> operation, client_context |-> client_context,
     reg_index |-> reg_index]

\* variant of IpcMessageHeader::to_bytes that writes ipc_flags before data_length
IpcMessageHeader_to_bytes_FlagsFirst(header) ==
    BE32(header.version) \o BE32(header.ipc_flags) \o BE32(header.data_length)
        \o BE32(Operation_to_u32(header.operation))
        \o BE64(header.client_context) \o BE32(header.reg_index)

\* IpcMessageHeader::to_bytes
IpcMessageHeader_to_bytes(header) ==
    BE32(header.version) \o BE32(header.data_length) \o BE32(header.ipc_flags)
        \o BE32(Operation_to_u32(header.operation))
        \o BE64(header.client_context) \o BE32(header.reg_index)

\* browse::Request::to_bytes with service_flags = none, interface_index = 0
BrowseRequest_to_bytes(reg_type, domain) ==
    BE32(0) \o BE32(0) \o reg_type \o << 0 >> \o domain \o << 0 >>

\* variant of resolve::Request::to_bytes that writes reg_type before name
ResolveRequest_to_bytes_TypeFirst(name, reg_type, domain) ==
    BE32(0) \o BE32(0) \o reg_type \o << 0 >> \o name \o << 0 >> \o domain \o << 0 >>

\* resolve::Request::to_bytes with service_flags = none, interface_index = 0
ResolveRequest_to_bytes(name, reg_type, domain) ==
    BE32(0) \o BE32(0) \o name \o << 0 >> \o reg_type \o << 0 >> \o domain \o << 0 >>

\* addrinfo::Protocol as u32
ProtocolCodes == [IPv4 |-> 1, IPv6 |-> 2, Both |-> 3]

\* addrinfo::Request::to_bytes with service_flags = None, interface_index = 0
AddrInfoRequest_to_bytes(protocol, hostname) ==
    BE32(0) \o BE32(0) \o BE32(protocol) \o hostname \o << 0 >>

\* the buffer a write_*_request function hands to Ipc::write: header_buf followed
\* by request_buf
RequestBuf(operation, request_buf, context) ==
    IpcMessageHeader_to_bytes(
        IpcMessageHeader_new(1, Len(request_buf), NO_ERR_SD,
                             [dir |-> "Request", op |-> operation], context, 0))
        \o request_buf

\* Ipc::write_browse_request("b", "c") with rand::random() = context
write_browse_request(context) ==
    RequestBuf("Browse", BrowseRequest_to_bytes(<< 98 >>, << 99 >>), context)

\* Ipc::write_resolve_request("a", "b", "c") with rand::random() = context
write_resolve_request(context) ==
    RequestBuf("Resolve", ResolveRequest_to_bytes(<< 97 >>, << 98 >>, << 99 >>), context)

\* Ipc::write_addrinfo_request(Protocol::IPv4, "h") with rand::random() = context
write_addrinfo_request(context) ==
    RequestBuf("AddressInfo", AddrInfoRequest_to_bytes(1, << 104 >>), context)

\* Ipc::write_cancel_request(context): the header alone
write_cancel_request(context) == RequestBuf("Cancel", << >>, context)

\* the methods of MDnsResponder that write, and the buffer each one builds
WriterOps == {"browse", "resolve", "get_addr_info", "cancel"}

WriteBufOf(op, context) ==
    IF op = "browse" THEN write_browse_request(context)
    ELSE IF op = "resolve" THEN write_resolve_request(context)
    ELSE IF op = "get_addr_info" THEN write_addrinfo_request(context)
    ELSE write_cancel_request(context)

\* the values rand::random::<u64>() may return and cancel may be given
Contexts == {17, 258}

\* the values try_write may return as Ok(n) for a buffer of len bytes: a short
\* write of one byte, or all of it
WriteSizes(len) == { n \in {1, len} : n >= 1 /\ n <= len }

\* bound: the number of writer calls the application makes
MaxCalls == 2

NoCall == [op |-> "none", context |-> 0, buf |-> << >>]

\* what the reader task is doing, as recorded with a returning call
ReaderDoing ==
    IF pc = "send" /\ rx = "open" /\ Len(chan) = capacity THEN "suspended" ELSE pc

\* variant of WriterCall that first waits for the reader task to be at its select!
WriterCall_WaitsReader(context) ==
    /\ responder = "open"
    /\ closePc = "idle"
    /\ wpc = "idle"
    /\ pc = "select"
    /\ requests # << >>
    /\ requests' = Tail(requests)
    /\ wcall' = [op |-> Head(requests), context |-> context,
                 buf |-> WriteBufOf(Head(requests), context)]
    /\ wpc' = "writable"
    /\ UNCHANGED <<frames, written, wire, responder, capacity, pc, buffer, pos, base,
                   pending, after, chan, sender, rx, received, published, lost,
                   cancel_token, closePc, conn, ipc, codec, calls, sent>>

\* browse / resolve / get_addr_info / cancel up to write_socket.writable().await:
\* the request and its header are built, with context drawn by rand::random() or,
\* for cancel, given by the caller.  writable() is taken to resolve with Ok: it
\* fails only once the runtime's I/O driver has shut down.
WriterCall(context) ==
    /\ responder = "open"
    /\ closePc = "idle"
    /\ wpc = "idle"
    /\ requests # << >>
    /\ requests' = Tail(requests)
    /\ wcall' = [op |-> Head(requests), context |-> context,
                 buf |-> WriteBufOf(Head(requests), context)]
    /\ wpc' = "writable"
    /\ UNCHANGED <<frames, written, wire, responder, capacity, pc, buffer, pos, base,
                   pending, after, chan, sender, rx, received, published, lost,
                   cancel_token, closePc, conn, ipc, codec, calls, sent>>

\* the call returns: what the MDnsResponder method gives its caller
Returned(n, ret) ==
    /\ calls' = Append(calls, [op |-> wcall.op, context |-> wcall.context,
                               buf |-> wcall.buf, at |-> Len(sent), n |-> n,
                               ret |-> ret, reader |-> ReaderDoing])
    /\ wcall' = NoCall
    /\ wpc' = "idle"

\* Ipc::write: try_write(buf) returns Ok(n); the write_*_request function returns
\* Ok(header.client_context), or Ok(()) for cancel, and the method passes it on
WriterWriteOk(n) ==
    /\ wpc = "writable"
    /\ sent' = sent \o Slice(wcall.buf, 0, n)
    /\ Returned(n, IF wcall.op = "cancel" THEN [kind |-> "Ok"]
                   ELSE [kind |-> "Ok", context |-> wcall.context])
    /\ UNCHANGED <<frames, written, wire, responder, capacity, pc, buffer, pos, base,
                   pending, after, chan, sender, rx, received, published, lost,
                   cancel_token, closePc, conn, ipc, codec, requests>>

\* variant of Ipc::write that fails after the socket took the frame's first byte
WriterWriteErr_AfterPartial ==
    /\ wpc = "writable"
    /\ sent' = sent \o Slice(wcall.buf, 0, 1)
    /\ Returned(0 - 1, [kind |-> "IpcWriteFailed"])
    /\ UNCHANGED <<frames, written, wire, responder, capacity, pc, buffer, pos, base,
                   pending, after, chan, sender, rx, received, published, lost,
                   cancel_token, closePc, conn, ipc, codec, requests>>

\* Ipc::write: try_write(buf) returns Err(e); the method returns IpcWriteFailed
WriterWriteErr ==
    /\ wpc = "writable"
    /\ Returned(0 - 1, [kind |-> "IpcWriteFailed"])
    /\ UNCHANGED <<frames, written, wire, responder, capacity, pc, buffer, pos, base,
                   pending, after, chan, sender, rx, received, published, lost,
                   cancel_token, closePc, conn, ipc, codec, requests, sent>>

----------------------------------------------------------------------------
(* The wire codec on its own: one call of an encoder or of the header      *)
(* decoder on an input drawn from a bounded set                            *)

NoCodec == [fn |-> "none", stage |-> "done", arg |-> << >>, bytes |-> << >>,
            out |-> << >>]

\* the operations of header::Operation
Operations ==
    { [dir |-> "Request", op |-> RequestOperationNames[i]] :
          i \in 1..Len(RequestOperationNames) }
    \cup {[dir |-> "Request", op |-> "Cancel"]}
    \cup { [dir |-> "Reply", op |-> ReplyOperationNames[i]] :
               i \in 1..Len(ReplyOperationNames) }

\* headers to encode: every operation, with one-byte and multi-byte field values
HeaderInputs ==
    { IpcMessageHeader_new(v, l, f, o, c, r) :
          v \in {1, 16909060}, l \in {0, 14, 66051}, f \in {0, NO_ERR_SD},
          o \in Operations, c \in Contexts, r \in {0, 258} }

\* a header's 28 bytes with operation code c
HeaderWithCode(c) ==
    BE32(1) \o BE32(0) \o BE32(0) \o BE32(c) \o BE64(17) \o BE32(0)

\* bound: the largest operation code given to the decoder, besides a few codes
\* of more than one byte
MaxCode == 80

\* buffers to decode: every code up to MaxCode and some larger ones, each as a
\* whole header, as a header with bytes behind it, and cut short
RawInputs ==
    { Slice(HeaderWithCode(c) \o << 0, 0 >>, 0, l) :
          c \in 0..MaxCode \cup {255, 256, 16447, 1073741823},
          l \in {0, 15, 27, 28, 30} }

\* strings given to the request encoders
Strs == { << >>, << 97 >>, << 95, 104, 116, 116, 112 >> }

\* requests to encode
RequestInputs ==
    { [fn |-> "browse", reg_type |-> t, domain |-> d] : t \in Strs, d \in Strs }
    \cup { [fn |-> "resolve", name |-> n, reg_type |-> t, domain |-> d] :
               n \in Strs, t \in Strs, d \in Strs }
    \cup { [fn |-> "addrinfo", protocol |-> p, hostname |-> h] :
               p \in DOMAIN ProtocolCodes, h \in Strs }

\* bound: the longest TXT item and the longest reply-body string decoded
MaxItem == 2

\* bytes of TXT items: control bytes, the two escaped characters, printable
\* bytes at both ends of their range, and bytes above 0x7E
TxtBytes == {0, 9, 31, 32, 34, 65, 92, 126, 127, 200, 255}

\* the data of the TXT items to unpack
ItemInputs == SeqsUpTo(TxtBytes, MaxItem)

\* bytes of reply-body strings: ASCII, the two bytes of U+00E9, and a byte that
\* occurs in no UTF-8 sequence
CStrBytes == {65, 195, 169, 255}

\* the strings of a reply body to decode
CStrInputs == SeqsUpTo(CStrBytes, MaxItem)

\* the states in which a codec call is about to be made
CodecInputs ==
    { [fn |-> "header", stage |-> "encode", arg |-> h, bytes |-> << >>, out |-> << >>] :
          h \in HeaderInputs }
    \cup { [fn |-> "raw", stage |-> "decode", arg |-> << >>, bytes |-> b, out |-> << >>] :
               b \in RawInputs }
    \cup { [fn |-> r.fn, stage |-> "encode", arg |-> r, bytes |-> << >>, out |-> << >>] :
               r \in RequestInputs }
    \cup { [fn |-> "item", stage |-> "unpack", arg |-> d,
            bytes |-> << Len(d) >> \o d, out |-> << >>] : d \in ItemInputs }
    \cup { [fn |-> "cstr", stage |-> "read", arg |-> d,
            bytes |-> CStr(d) \o CStr(<< 98 >>), out |-> << >>] : d \in CStrInputs }

\* IpcMessageHeader::to_bytes is called on the header
EncodeHeader ==
    /\ codec.fn = "header"
    /\ codec.stage = "encode"
    /\ codec' = [codec EXCEPT !.stage = "decode",
                              !.bytes = IpcMessageHeader_to_bytes(codec.arg)]
    /\ UNCHANGED <<frames, written, wire, responder, capacity, pc, buffer, pos, base,
                   pending, after, chan, sender, rx, received, published, lost,
                   cancel_token, closePc, conn, ipc, wvars>>

\* IpcMessageHeader::from is called on the bytes
DecodeHeader ==
    /\ codec.fn \in {"header", "raw"}
    /\ codec.stage = "decode"
    /\ codec' = [codec EXCEPT !.stage = "done",
                              !.out = IpcMessageHeader_from(codec.bytes)]
    /\ UNCHANGED <<frames, written, wire, responder, capacity, pc, buffer, pos, base,
                   pending, after, chan, sender, rx, received, published, lost,
                   cancel_token, closePc, conn, ipc, wvars>>

\* the to_bytes of the request named by codec.fn
RequestBytes(r) ==
    IF r.fn = "browse" THEN BrowseRequest_to_bytes(r.reg_type, r.domain)
    ELSE IF r.fn = "resolve" THEN ResolveRequest_to_bytes(r.name, r.reg_type, r.domain)
    ELSE AddrInfoRequest_to_bytes(ProtocolCodes[r.protocol], r.hostname)

\* Request::to_bytes is called on a browse, resolve or addrinfo request
EncodeRequest ==
    /\ codec.fn \in {"browse", "resolve", "addrinfo"}
    /\ codec.stage = "encode"
    /\ codec' = [codec EXCEPT !.stage = "done", !.bytes = RequestBytes(codec.arg)]
    /\ UNCHANGED <<frames, written, wire, responder, capacity, pc, buffer, pos, base,
                   pending, after, chan, sender, rx, received, published, lost,
                   cancel_token, closePc, conn, ipc, wvars>>

\* unpack_string is called on a TXT item: its length byte and its data
UnpackItem ==
    /\ codec.fn = "item"
    /\ codec.stage = "unpack"
    /\ codec' = [codec EXCEPT !.stage = "done", !.out = unpack_string(codec.bytes, 0)]
    /\ UNCHANGED <<frames, written, wire, responder, capacity, pc, buffer, pos, base,
                   pending, after, chan, sender, rx, received, published, lost,
                   cancel_token, closePc, conn, ipc, wvars>>

\* a from_bytes reads the string at the front of the bytes and moves its cursor
ReadString ==
    /\ codec.fn = "cstr"
    /\ codec.stage = "read"
    /\ codec' = [codec EXCEPT !.stage = "done", !.out = ReadCStr(codec.bytes, 0)]
    /\ UNCHANGED <<frames, written, wire, responder, capacity, pc, buffer, pos, base,
                   pending, after, chan, sender, rx, received, published, lost,
                   cancel_token, closePc, conn, ipc, wvars>>

----------------------------------------------------------------------------

\* the state before MDnsResponder::new: the daemon will write one of streams, the
\* application will make the calls of one of scripts
Start(streams, scripts) ==
    /\ frames \in streams
    /\ requests \in scripts
    /\ written = 0
    /\ wire = << >>
    /\ responder = "none"
    /\ capacity = 0
    /\ pc = "unborn"
    /\ buffer = << >>
    /\ pos = 0
    /\ base = 0
    /\ pending = << >>
    /\ after = << >>
    /\ chan = << >>
    /\ sender = "none"
    /\ rx = "none"
    /\ received = << >>
    /\ published = << >>
    /\ lost = << >>
    /\ cancel_token = FALSE
    /\ closePc = "idle"
    /\ conn = "none"
    /\ ipc = {}
    /\ codec = NoCodec
    /\ wpc = "idle"
    /\ wcall = NoCall
    /\ calls = << >>
    /\ sent = << >>

\* the reader side on its own: the application makes no writer call
Init == Start(SeqsUpTo(StreamKinds, MaxFrames), {<< >>})

\* the reader side on the frames of the fault scenarios
InitFault == Start(SeqsUpTo(FaultKinds, MaxFrames), {<< >>})

\* the writer side: any script of calls against a silent daemon, and one call
\* made while the daemon sends two Browse replies
InitWriter ==
    \/ Start({<< >>}, SeqsUpTo(WriterOps, MaxCalls))
    \/ Start({<< 1, 1 >>}, {<< "browse" >>})

\* the reader side under back-pressure: the daemon sends one more Browse reply
\* than the reader scenarios have frames
InitPressure == Start(SeqsUpTo({1}, MaxFrames + 1), {<< >>})

\* the daemon answers get_addr_info requests
InitAddr == Start(SeqsUpTo(AddrKinds, MaxFrames), {<< >>})

\* the daemon answers resolve requests
InitTxt == Start(SeqsUpTo(TxtKinds, MaxFrames), {<< >>})

\* the daemon writes whole replies that the socket delivers in any pieces
InitSplit == Start(SeqsUpTo(SplitKinds, MaxFrames), {<< >>})

\* the daemon writes replies with overlong sub-field lengths
InitTrunc == Start(SeqsUpTo(TruncKinds, MaxFrames), {<< >>})

\* the wire codec on its own: no responder is opened
InitCodec ==
    /\ codec \in CodecInputs
    /\ frames = << >>
    /\ requests = << >>
    /\ written = 0
    /\ wire = << >>
    /\ responder = "none"
    /\ capacity = 0
    /\ pc = "unborn"
    /\ buffer = << >>
    /\ pos = 0
    /\ base = 0
    /\ pending = << >>
    /\ after = << >>
    /\ chan = << >>
    /\ sender = "none"
    /\ rx = "none"
    /\ received = << >>
    /\ published = << >>
    /\ lost = << >>
    /\ cancel_token = FALSE
    /\ closePc = "idle"
    /\ conn = "none"
    /\ ipc = {}
    /\ wpc = "idle"
    /\ wcall = NoCall
    /\ calls = << >>
    /\ sent = << >>

ReaderNext ==
    \/ ReaderCancelled
    \/ \E n \in ReadSizes(Len(wire)) : ReaderRead(n)
    \/ ReaderEof
    \/ ReaderWouldBlock
    \/ ReaderReadError
    \/ ReaderSend

WriterNext ==
    \/ \E c \in Contexts : WriterCall(c)
    \/ \E n \in WriteSizes(Len(wcall.buf)) : WriterWriteOk(n)
    \/ WriterWriteErr

Next ==
    \/ \E c \in 0..MaxCapacity, ok \in BOOLEAN : New(c, ok)
    \/ ReaderNext
    \/ Close
    \/ CloseJoin
    \/ ConsumerRecv
    \/ ConsumerRecvNone
    \/ ConsumerDrop
    \/ PeerWrite

NextAll == Next \/ WriterNext

\* try_read may return any number of the pending bytes
NextSplit == Next \/ \E n \in SplitSizes(Len(wire)) : ReaderRead(n)

CodecNext == EncodeHeader \/ DecodeHeader \/ EncodeRequest \/ UnpackItem \/ ReadString

Spec == Init /\ [][Next]_vars

FaultSpec == InitFault /\ [][Next]_vars

PressureSpec == InitPressure /\ [][Next]_vars

AddrSpec == InitAddr /\ [][Next]_vars

TxtSpec == InitTxt /\ [][Next]_vars

TruncSpec == InitTrunc /\ [][Next]_vars

SplitSpec == InitSplit /\ [][NextSplit]_vars

WriterSpec == InitWriter /\ [][NextAll]_vars

CodecSpec == InitCodec /\ [][CodecNext]_vars

\* the runtime schedules a task that is ready: a reader whose select! has the
\* cancelled() branch ready, or whose send has room or a closed channel, resumes,
\* and close() resumes once the task it joins has ended; the consumer and the
\* daemon are under no obligation
FairSpec ==
    Spec /\ WF_vars(ReaderCancelled) /\ WF_vars(ReaderSend) /\ WF_vars(CloseJoin)

----------------------------------------------------------------------------
(* Vocabulary of the properties *)

\* the events published so far, in publication order
PubEvs == [i \in 1..Len(published) |-> published[i].ev]

\* the length of the i-th frame of the daemon's output and its stream offset
FrameLen(i) == Len(Catalogue[frames[i]].bytes)

RECURSIVE FrameStart(_)
FrameStart(i) == IF i <= 1 THEN 0 ELSE FrameStart(i - 1) + FrameLen(i - 1)

\* catalogue entries that are well-formed replies, those among them whose flags
\* word is not zero, and the entries with a truncated reply body
ValidKinds == { k \in 1..Len(Catalogue) : Catalogue[k].event # NoEvent }
FlaggedKinds == { k \in ValidKinds : Catalogue[k].flags # 0 }
BrowseKinds == { k \in ValidKinds : Catalogue[k].operation = 66 }
BadBodyKinds == { k \in 1..Len(Catalogue) :
                     /\ Catalogue[k].event = NoEvent
                     /\ Catalogue[k].operation = 66
                     /\ Len(Catalogue[k].bytes) < IPC_HEADER_SIZE + REPLY_HEADER_SIZE }
BadHeaderKinds == { k \in 1..Len(Catalogue) : Catalogue[k].operation = 99 }

\* s is a prefix of t
IsPrefix(s, t) == Len(s) <= Len(t) /\ \A i \in 1..Len(s) : s[i] = t[i]

\* this step is a socket read, and the number of bytes it returns
IsRead == pc = "select" /\ written' = written /\ Len(wire') < Len(wire)
Taken == Len(wire) - Len(wire')

\* this step is a read into an empty buffer that starts at the first byte of the
\* i-th frame and returns at least that whole frame
ReadsWholeFrame(i) ==
    /\ IsRead
    /\ buffer = << >>
    /\ i \in 1..written
    /\ base = FrameStart(i)
    /\ Taken >= FrameLen(i)

----------------------------------------------------------------------------
(* C1 *)

\* C1: framing determinism. Once the reader has read, in whatever read sizes, the
\* whole of a stream of N valid reply frames and is back at its select with the
\* consumer still attached, it has published exactly the N events of those
\* frames, in frame order.
C1_FramingDeterminism ==
    ( /\ \A i \in 1..Len(frames) : frames[i] \in FlaggedKinds
      /\ written = Len(frames)
      /\ wire = << >>
      /\ pc = "select"
      /\ lost = << >> )
    => PubEvs = [i \in 1..Len(frames) |-> Catalogue[frames[i]].event]

----------------------------------------------------------------------------
(* C2 *)

\* C2: event order. The published events come from strictly increasing stream
\* offsets, each offset is the start of a frame the daemon wrote and the event is
\* that frame's own event (one per reply, never merged), and the consumer
\* receives them in publication order with none held back: what it has received
\* followed by what is queued is exactly what has been published.
C2_EventOrder ==
    /\ \A i \in 1..Len(published) : \A j \in 1..Len(published) :
           i < j => published[i].at < published[j].at
    /\ \A i \in 1..Len(published) : \E k \in 1..written :
           /\ FrameStart(k) = published[i].at
           /\ Catalogue[frames[k]].event = published[i].ev
    /\ IsPrefix(received, PubEvs)
    /\ rx \in {"open", "eos"} => received \o chan = PubEvs

\* a MoreComing reply followed by an Add reply have both reached the consumer, in
\* the daemon's order
C2_Witness ==
    /\ Len(frames) = 2
    /\ Catalogue[frames[1]].flags = MORE_COMING
    /\ Catalogue[frames[2]].flags = ADD
    /\ received = << Catalogue[frames[1]].event, Catalogue[frames[2]].event >>
    /\ received[1] # received[2]

----------------------------------------------------------------------------
(* C3 *)

\* C3: backpressure. While the consumer has received nothing from a channel of
\* capacity C, the reader has published at most C events, every one of them is
\* still queued (none dropped), and a reader holding a further event while the
\* channel is full is suspended: it can take no step at all.
C3_Backpressure ==
    (rx = "open" /\ received = << >>)
    => /\ Len(published) <= capacity
       /\ chan = PubEvs
       /\ lost = << >>
       /\ (pc = "send" /\ Len(chan) = capacity) => ~ENABLED ReaderNext

\* the channel is full, nothing has been received and the reader is in a send
C3_Witness ==
    /\ rx = "open"
    /\ received = << >>
    /\ pc = "send"
    /\ capacity >= 1
    /\ Len(chan) = capacity

----------------------------------------------------------------------------
(* C4 *)

\* C4: cancellation liveness. Once close() has tripped the cancellation token,
\* the reader task eventually terminates and close() returns.
C4_CancellationLiveness == cancel_token ~> (pc = "exited" /\ closePc = "returned")

----------------------------------------------------------------------------
(* C5 *)

\* C5: cancellation wins. In every step taken while the cancellation token is
\* tripped, no byte is read from the socket and no event is published.
C5_CancellationWins ==
    [][cancel_token => (Len(wire') >= Len(wire) /\ published' = published)]_vars

----------------------------------------------------------------------------
(* C6 *)

\* C6: exit closes the channel. When the reader task has ended, for whatever
\* reason, its sender is dropped; a consumer that is still attached can always
\* complete a receive (a queued event or end-of-stream), and end-of-stream is
\* observed only after every published event has been received.
C6_ExitClosesChannel ==
    /\ pc \in {"exited", "panicked"} => sender = "dropped"
    /\ (pc \in {"exited", "panicked"} /\ rx = "open")
           => ENABLED (ConsumerRecv \/ ConsumerRecvNone)
    /\ rx = "eos" => (chan = << >> /\ received = PubEvs /\ sender = "dropped")

\* the reader has exited and the consumer has received a queued event and then
\* observed end-of-stream
C6_Witness ==
    /\ pc = "exited"
    /\ rx = "eos"
    /\ received # << >>

----------------------------------------------------------------------------
(* C7 *)

\* C7: Browse reply event. A read that brings a complete Browse reply frame to
\* the front of an empty buffer leads to the send of that frame's one event:
\* ServiceAdded when the Add bit is set, otherwise (flags = 0 included)
\* ServiceRemoved with the body's name, type and domain.
C7_BrowseReplyEvent ==
    [][\A i \in 1..Len(frames) :
           (ReadsWholeFrame(i) /\ frames[i] \in BrowseKinds)
           => /\ pc' = "send"
              /\ Head(pending').at = base
              /\ Head(pending').ev = Catalogue[frames[i]].event
              /\ Head(pending').ev.type =
                     IF HasBit(Catalogue[frames[i]].flags, ADD)
                     THEN "ServiceAdded" ELSE "ServiceRemoved"]_vars

----------------------------------------------------------------------------
(* C8 *)

\* C8: the reply-header decoder never fails on the flags value. For every frame
\* the daemon has written whose body holds at least the 12 bytes of a reply
\* header, decoding that header succeeds.
C8_ReplyHeaderFlags ==
    \A i \in 1..written :
        Len(Catalogue[frames[i]].bytes) >= IPC_HEADER_SIZE + REPLY_HEADER_SIZE
        => ReplyHeader_from_bytes(
               SliceFrom(Catalogue[frames[i]].bytes, IPC_HEADER_SIZE)).kind = "ok"

----------------------------------------------------------------------------
(* C9 *)

----------------------------------------------------------------------------
(* C10 *)

\* C10: a bad header discards the buffer and the reader goes on. A read that
\* brings a frame with an undecodable header to the front of an empty buffer
\* discards every byte it returned, publishes nothing and leaves the reader
\* running at its select; and a read that then brings a complete valid frame to
\* the empty buffer leads to the send of that frame's event.
C10_BadHeaderDiscards ==
    [][\A i \in 1..Len(frames) :
           /\ (ReadsWholeFrame(i) /\ frames[i] \in BadHeaderKinds)
              => /\ pc' = "select"
                 /\ buffer' = << >>
                 /\ base' = base + Taken
                 /\ published' = published
                 /\ sender' = sender
           /\ ( /\ ReadsWholeFrame(i)
                /\ i > 1
                /\ frames[i - 1] \in BadHeaderKinds
                /\ frames[i] \in FlaggedKinds )
              => /\ pc' = "send"
                 /\ Head(pending').at = base
                 /\ Head(pending').ev = Catalogue[frames[i]].event]_vars

\* after a frame with operation code 99 was discarded, the valid frame behind it
\* has been published
C10_Witness ==
    /\ Len(frames) = 2
    /\ frames[1] \in BadHeaderKinds
    /\ frames[2] \in FlaggedKinds
    /\ Len(published) = 1
    /\ published[1].at = FrameStart(2)
    /\ published[1].ev = Catalogue[frames[2]].event

----------------------------------------------------------------------------
(* C11 *)

\* catalogue entries that are replies with a known operation code other than
\* Browse, Resolve and AddressInfo
OtherReplyKinds == { k \in 1..Len(Catalogue) :
                        /\ ReplyOperation_from_u32(Catalogue[k].operation).some
                        /\ Catalogue[k].operation \notin {66, 67, 72} }

\* C11: a reply with a known operation code other than Browse, Resolve and
\* AddressInfo is skipped without an event, and the valid frames that follow it
\* still produce their events. A read that brings to an empty buffer such a reply,
\* complete, followed by a complete valid frame, publishes nothing for the first
\* and goes on to send the event of the frame that follows it.
C11_OtherReplySkipped ==
    [][\A i \in 1..Len(frames) :
           ( /\ ReadsWholeFrame(i)
             /\ frames[i] \in OtherReplyKinds
             /\ i + 1 <= written
             /\ frames[i + 1] \in ValidKinds
             /\ Taken >= FrameLen(i) + FrameLen(i + 1) )
           => /\ published' = published
              /\ pc' = "send"
              /\ Len(pending') = 1
              /\ pending'[1].at = FrameStart(i + 1)
              /\ pending'[1].ev = Catalogue[frames[i + 1]].event]_vars

----------------------------------------------------------------------------
(* C12 *)

\* C12: no byte content makes the reader task terminate abnormally. The reader
\* task never panics, whatever the daemon wrote (a reply body shorter than the
\* 12-byte reply header and a string without its NUL included), and close()
\* never panics on joining it.
C12_ReaderNeverPanics == pc # "panicked" /\ closePc # "panicked"

----------------------------------------------------------------------------
(* Vocabulary of the writer properties *)

\* the i-th call returned success; it is one that draws its own context
Succeeded(i) == calls[i].ret.kind = "Ok"
Generates(i) == calls[i].op # "cancel"

\* the frames of the first k calls that returned success, end to end
RECURSIVE OkFrames(_)
OkFrames(k) ==
    IF k = 0 THEN << >>
    ELSE OkFrames(k - 1) \o (IF Succeeded(k) THEN calls[k].buf ELSE << >>)

\* the bytes the i-th call put on the socket
PutOnSocket(i) ==
    IF calls[i].n < 0 THEN << >>
    ELSE Slice(sent, calls[i].at, calls[i].at + calls[i].n)

----------------------------------------------------------------------------
(* C13 *)

\* C13: whole frames on the socket. A writer call that reports success has
\* written every byte of its frame, and the bytes on the socket are the frames of
\* the successful calls, each its complete 28-byte header followed by its
\* complete body, end to end in call order.
C13_WholeFramesWritten ==
    /\ \A i \in 1..Len(calls) : Succeeded(i) => calls[i].n = Len(calls[i].buf)
    /\ sent = OkFrames(Len(calls))

----------------------------------------------------------------------------
(* C14 *)

\* C14: browse, resolve and get_addr_info return IpcWriteFailed exactly when the
\* write on the socket's write half fails, and otherwise return the context that
\* the call wrote to the socket as the client_context of its header: the bytes
\* the call put on the socket begin with a header that decodes, and its
\* client_context is the returned value in 8 big-endian bytes.
C14_ContextReturned ==
    \A i \in 1..Len(calls) :
        Generates(i) =>
            /\ (calls[i].ret.kind = "IpcWriteFailed") <=> (calls[i].n < 0)
            /\ Succeeded(i) =>
                   /\ IpcMessageHeader_from(PutOnSocket(i)).kind = "ok"
                   /\ IpcMessageHeader_from(PutOnSocket(i)).client_context
                          = BE64(calls[i].ret.context)

----------------------------------------------------------------------------
(* C15 *)

\* C15: a cancel(c) that returns success has put on the socket exactly one
\* 28-byte header and nothing else: version 1, data_length 0, ipc_flags 0x4,
\* operation 63, client_context c, reg_index 0.
C15_CancelHeader ==
    \A i \in 1..Len(calls) :
        (calls[i].op = "cancel" /\ Succeeded(i)) =>
            PutOnSocket(i) = BE32(1) \o BE32(0) \o BE32(4) \o BE32(63)
                                 \o BE64(calls[i].context) \o BE32(0)

----------------------------------------------------------------------------
(* C16 *)

\* C16: contexts are unique. No two browse, resolve or get_addr_info calls that
\* returned a context were given the same one.
C16_ContextsUnique ==
    \A i, j \in 1..Len(calls) :
        (i < j /\ Generates(i) /\ Generates(j) /\ Succeeded(i) /\ Succeeded(j))
            => calls[i].ret.context # calls[j].ret.context

----------------------------------------------------------------------------
(* C17 *)

\* C17: open with capacity 0 returns ChannelCreationFailed and has no other
\* effect: no connection to the socket was attempted, no channel, token, socket
\* half or reader task was created, and nothing the daemon could send is read.
C17_ZeroCapacityNoEffect ==
    responder = "ChannelCreationFailed" =>
        /\ conn = "none"
        /\ ipc = {}
        /\ pc = "unborn"
        /\ sender = "none"
        /\ rx = "none"
        /\ capacity = 0
        /\ chan = << >>
        /\ ~cancel_token
        /\ buffer = << >>
        /\ published = << >>

\* open was called with capacity 0 while the daemon had frames to send
C17_Witness == responder = "ChannelCreationFailed" /\ Len(frames) = MaxFrames

----------------------------------------------------------------------------
(* C18 *)

\* C18: if the connection fails, open returns IpcConnectionCreationFailed and
\* leaves nothing behind: no reader task, no token and no socket half, and both
\* ends of the event channel dropped with nothing in it.
C18_ConnectFailureLeavesNothing ==
    responder = "IpcConnectionCreationFailed" =>
        /\ conn = "refused"
        /\ ipc = {}
        /\ pc = "unborn"
        /\ sender = "dropped"
        /\ rx = "dropped"
        /\ chan = << >>
        /\ ~cancel_token
        /\ closePc = "idle"
        /\ buffer = << >>
        /\ published = << >>

\* open was called with a capacity above 0 and the connect was refused
C18_Witness ==
    /\ responder = "IpcConnectionCreationFailed"
    /\ capacity > 0
    /\ Len(frames) = MaxFrames

----------------------------------------------------------------------------
(* C19 *)

\* the reader is suspended in a send on a full channel
Suspended == pc = "send" /\ rx = "open" /\ Len(chan) = capacity

\* C19: while the reader is suspended on a full channel it performs no socket
\* read and its buffer does not grow: a step taken from such a state takes no
\* byte from the socket (the daemon may add some) and leaves the buffer and its
\* stream offset as they are.
C19_SuspendedReaderDoesNotRead ==
    [][Suspended => /\ IsPrefix(wire, wire')
                    /\ buffer' = buffer
                    /\ base' = base]_vars

\* the reader is suspended on a full channel while bytes of a further frame wait
\* on the socket
C19_Witness == Suspended /\ wire # << >> /\ written = MaxFrames + 1

----------------------------------------------------------------------------
(* C20 *)

\* C20: writers never block on the reader task. On an open responder that is not
\* being closed, a writer call can start and, once started, can complete, in
\* every state of the reader task.
C20_WritersNeverBlockOnReader ==
    (responder = "open" /\ closePc = "idle") =>
        /\ (wpc = "idle" /\ requests # << >>) => ENABLED (\E c \in Contexts : WriterCall(c))
        /\ wpc = "writable" => ENABLED (WriterWriteOk(Len(wcall.buf)) \/ WriterWriteErr)

\* a writer call has written its whole frame and returned its context while the
\* reader task was suspended in a send on a full channel
C20_Witness ==
    \E i \in 1..Len(calls) :
        /\ calls[i].reader = "suspended"
        /\ Succeeded(i)
        /\ calls[i].n = Len(calls[i].buf)

----------------------------------------------------------------------------
(* C21 *)

\* C21: a header split across reads. A read that leaves fewer than 28 bytes in
\* the buffer ends its drain pass with the buffer kept: the bytes read so far
\* stay in the buffer for the next read to complete, no event is published and
\* the reader is back at its select.
C21_ShortHeaderNeedsMore ==
    [][(IsRead /\ Len(buffer) + Taken < IPC_HEADER_SIZE)
       => /\ buffer' = buffer \o Slice(wire, 0, Taken)
          /\ base' = base
          /\ published' = published
          /\ pc' = "select"]_vars

----------------------------------------------------------------------------
(* C22 *)

\* catalogue entries whose operation code is one of the reply codes 64..73
KnownReplyKinds == { k \in 1..Len(Catalogue) :
                        ReplyOperation_from_u32(Catalogue[k].operation).some }

\* C22: a body split across reads. A read that brings to an empty buffer the
\* whole header of a reply, of whichever reply operation, but not yet all of its
\* 28 + data_length bytes, ends its drain pass with the buffer kept: the bytes
\* read stay in the buffer, no event is published and the reader is back at its
\* select.
C22_ShortBodyNeedsMore ==
    [][\A i \in 1..Len(frames) :
           ( /\ IsRead
             /\ buffer = << >>
             /\ i <= written
             /\ base = FrameStart(i)
             /\ frames[i] \in KnownReplyKinds
             /\ Taken >= IPC_HEADER_SIZE
             /\ Taken < FrameLen(i) )
           => /\ buffer' = Slice(wire, 0, Taken)
              /\ base' = base
              /\ published' = published
              /\ pc' = "select"]_vars

----------------------------------------------------------------------------
(* C23 *)

\* C23: the reader task terminates on exactly three causes. A step in which the
\* running reader task stops running is the cancellation branch of its select,
\* a read of 0 bytes, or a read error other than WouldBlock; no step that parses
\* what a read returned ends the task.
C23_TerminationCauses ==
    [][(pc \in {"select", "send"} /\ pc' \notin {"select", "send"})
       => (ReaderCancelled \/ ReaderEof \/ ReaderReadError)]_vars

----------------------------------------------------------------------------
(* C24 *)

\* C24: a failed event send does not terminate the reader task. When the send of
\* a frame's event fails because the receiver is gone, the task keeps running
\* and keeps its end of the channel, publishes nothing, and counts the frame as
\* consumed: the frame is one the daemon wrote, its 28 + data_length bytes are
\* added to pos, and at the end of the drain pass the buffer starts behind them.
C24_SendFailureContinues ==
    [][(pc = "send" /\ rx = "dropped" /\ lost' # lost)
       => /\ lost' = Append(lost, Head(pending).ev)
          /\ published' = published
          /\ pc' \in {"send", "select"}
          /\ sender' = sender
          /\ \E i \in 1..written :
                 /\ Head(pending).at = FrameStart(i)
                 /\ Head(pending).size = FrameLen(i)
          /\ pc' = "send" => pos' = pos + Head(pending).size
          /\ pc' = "select" => base' >= Head(pending).at + Head(pending).size]_vars

\* with the receiver gone, the events of two frames were dropped, the second
\* after the first had been counted as consumed, and the reader is at its select
\* with an empty buffer behind both frames
C24_Witness ==
    /\ rx = "dropped"
    /\ Len(lost) = 2
    /\ Len(frames) = 2
    /\ pc = "select"
    /\ buffer = << >>
    /\ base = FrameStart(2) + FrameLen(2)

----------------------------------------------------------------------------
(* C25 *)

\* the operation code the header of each generating call is to carry
RequestCodeOf(op) ==
    IF op = "browse" THEN 6 ELSE IF op = "resolve" THEN 7 ELSE 15

\* C25: the request headers on the socket. What a successful browse, resolve or
\* get_addr_info call put on the socket begins with a 28-byte header with
\* version 1, ipc_flags 0x4, operation 6, 7 or 15 respectively and reg_index 0,
\* whose data_length is the exact length of the body that follows it there.
C25_RequestHeaders ==
    \A i \in 1..Len(calls) :
        (Generates(i) /\ Succeeded(i)) =>
            /\ Len(PutOnSocket(i)) >= IPC_HEADER_SIZE
            /\ U32At(PutOnSocket(i), 0) = 1
            /\ U32At(PutOnSocket(i), 4) = Len(PutOnSocket(i)) - IPC_HEADER_SIZE
            /\ U32At(PutOnSocket(i), 8) = 4
            /\ U32At(PutOnSocket(i), 12) = RequestCodeOf(calls[i].op)
            /\ U32At(PutOnSocket(i), 24) = 0

----------------------------------------------------------------------------
(* C26 *)

\* C26: header round-trip. For every header whose operation is one of the listed
\* request or reply operations, the encoding is exactly 28 bytes and decoding it
\* succeeds and gives back the same six fields (client_context as its 8
\* big-endian bytes).
C26_HeaderRoundTrip ==
    codec.fn = "header" =>
        /\ codec.stage \in {"decode", "done"} => Len(codec.bytes) = IPC_HEADER_SIZE
        /\ codec.stage = "done" =>
               /\ codec.out.kind = "ok"
               /\ codec.out.version = codec.arg.version
               /\ codec.out.data_length = codec.arg.data_length
               /\ codec.out.ipc_flags = codec.arg.ipc_flags
               /\ codec.out.operation = codec.arg.operation
               /\ codec.out.client_context = BE64(codec.arg.client_context)
               /\ codec.out.reg_index = codec.arg.reg_index

\* a reply header with multi-byte field values has been encoded and decoded
C26_Witness ==
    /\ codec.fn = "header"
    /\ codec.stage = "done"
    /\ codec.arg.operation = [dir |-> "Reply", op |-> "AsyncError"]
    /\ codec.arg.version = 16909060
    /\ codec.arg.data_length = 66051
    /\ codec.arg.reg_index = 258

----------------------------------------------------------------------------
(* C27 *)

\* the operation codes the wire format lists, and the operation each one names
ListedCodes == (0..19) \cup {63} \cup (64..73)

ListedRequests ==
    << "None", "Connection", "RegisterRecord", "RemoveRecord", "Enumeration",
       "RegisterService", "Browse", "Resolve", "Query", "ReconfirmRecord",
       "AddRecord", "UpdateRecord", "SetDomain", "GetProperty", "PortMapping",
       "AddressInfo", "SendBpfObsolete", "GetPid", "Release", "ConnectionDelegate" >>

ListedReplies ==
    << "Enumeration", "RegisterService", "Browse", "Resolve", "Query",
       "RegisterRecord", "GetProperty", "PortMapping", "AddressInfo", "AsyncError" >>

ListedOperation(code) ==
    IF code >= 64 THEN [dir |-> "Reply", op |-> ListedReplies[code - 63]]
    ELSE IF code = 63 THEN [dir |-> "Request", op |-> "Cancel"]
    ELSE [dir |-> "Request", op |-> ListedRequests[code + 1]]

\* C27: the header decoder's failures. Decoding a buffer shorter than 28 bytes
\* fails as too short; decoding 28 bytes or more fails as an unknown operation
\* exactly when the operation code is outside {0..19, 63, 64..73}, and otherwise
\* gives the operation of that number, a reply for the codes from 64 on and a
\* request for the codes below.
C27_DecodeHeaderErrors ==
    (codec.fn \in {"header", "raw"} /\ codec.stage = "done") =>
        /\ Len(codec.bytes) < 28 =>
               (codec.out.kind = "err" /\ codec.out.why = "short")
        /\ (Len(codec.bytes) >= 28 /\ U32At(codec.bytes, 12) \notin ListedCodes) =>
               (codec.out.kind = "err" /\ codec.out.why = "operation")
        /\ (Len(codec.bytes) >= 28 /\ U32At(codec.bytes, 12) \in ListedCodes) =>
               /\ codec.out.kind = "ok"
               /\ codec.out.operation = ListedOperation(U32At(codec.bytes, 12))

\* the decoder was given 28 bytes with operation code 64, the first reply code
C27_Witness ==
    /\ codec.fn = "raw"
    /\ codec.stage = "done"
    /\ Len(codec.bytes) = 28
    /\ U32At(codec.bytes, 12) = 64
    /\ codec.out.kind = "ok"

----------------------------------------------------------------------------
(* C28 *)

\* the bytes hold str at offset at, followed by one zero byte
HoldsStr(bytes, at, str) ==
    /\ Len(bytes) >= at + Len(str) + 1
    /\ Slice(bytes, at, at + Len(str)) = str
    /\ At(bytes, at + Len(str)) = 0

\* the protocol numbers of the wire format
ListedProtocol(p) == IF p = "IPv4" THEN 1 ELSE IF p = "IPv6" THEN 2 ELSE 3

\* C28: the request bodies. An encoded browse request is service_flags 0,
\* interface_index, reg_type NUL, domain NUL; a resolve request is service_flags
\* 0, interface_index, name NUL, reg_type NUL, domain NUL; an address-info
\* request is service_flags 0, interface_index, protocol (1, 2 or 3), hostname
\* NUL; the integers are 4 bytes big-endian and nothing follows the last NUL.
C28_RequestBodies ==
    codec.stage = "done" =>
        /\ codec.fn = "browse" =>
               /\ U32At(codec.bytes, 0) = 0
               /\ U32At(codec.bytes, 4) = 0
               /\ HoldsStr(codec.bytes, 8, codec.arg.reg_type)
               /\ HoldsStr(codec.bytes, 9 + Len(codec.arg.reg_type), codec.arg.domain)
               /\ Len(codec.bytes) = 10 + Len(codec.arg.reg_type) + Len(codec.arg.domain)
        /\ codec.fn = "resolve" =>
               /\ U32At(codec.bytes, 0) = 0
               /\ U32At(codec.bytes, 4) = 0
               /\ HoldsStr(codec.bytes, 8, codec.arg.name)
               /\ HoldsStr(codec.bytes, 9 + Len(codec.arg.name), codec.arg.reg_type)
               /\ HoldsStr(codec.bytes,
                           10 + Len(codec.arg.name) + Len(codec.arg.reg_type),
                           codec.arg.domain)
               /\ Len(codec.bytes) = 11 + Len(codec.arg.name) + Len(codec.arg.reg_type)
                                        + Len(codec.arg.domain)
        /\ codec.fn = "addrinfo" =>
               /\ U32At(codec.bytes, 0) = 0
               /\ U32At(codec.bytes, 4) = 0
               /\ U32At(codec.bytes, 8) = ListedProtocol(codec.arg.protocol)
               /\ HoldsStr(codec.bytes, 12, codec.arg.hostname)
               /\ Len(codec.bytes) = 13 + Len(codec.arg.hostname)

\* a resolve request with three different strings has been encoded
C28_Witness ==
    /\ codec.fn = "resolve"
    /\ codec.stage = "done"
    /\ codec.arg.name = << 97 >>
    /\ codec.arg.reg_type = << 95, 104, 116, 116, 112 >>
    /\ codec.arg.domain = << >>

----------------------------------------------------------------------------
(* C29 *)

\* the catalogue's complete AddressInfo replies
AddrInfoKinds == { k \in 1..Len(Catalogue) : "rdata" \in DOMAIN Catalogue[k] }

\* C29: AddressInfo reply event. A read that brings a complete AddressInfo reply
\* frame to the front of an empty buffer leads to the send of one
\* AddressInfoResolved event carrying the frame's hostname and the 4 or 16 bytes
\* of its rdata as the address when rdlen is 4 or 16; with any other rdlen the
\* frame is a parse error: no event is sent and the buffer is cleared.
C29_AddressInfoEvent ==
    [][\A i \in 1..Len(frames) :
           (ReadsWholeFrame(i) /\ frames[i] \in AddrInfoKinds)
           => IF Len(Catalogue[frames[i]].rdata) \in {4, 16}
              THEN /\ pc' = "send"
                   /\ Head(pending').at = base
                   /\ Head(pending').ev =
                          [type |-> "AddressInfoResolved",
                           addr_info |-> [hostname |-> << 104 >>,
                                          address |-> Catalogue[frames[i]].rdata]]
              ELSE /\ pc' = "select"
                   /\ pending' = << >>
                   /\ published' = published
                   /\ buffer' = << >>]_vars

----------------------------------------------------------------------------
(* C30 *)

\* the TXT items of a region as the wire format defines them: acc holds the
\* items decoded before offset off
RECURSIVE TxtItemsFrom(_, _, _)
TxtItemsFrom(region, off, acc) ==
    IF off >= Len(region) THEN [ok |-> TRUE, items |-> acc]
    ELSE IF off + 1 + At(region, off) > Len(region)
         THEN [ok |-> acc # << >>, items |-> acc]
    ELSE TxtItemsFrom(region, off + 1 + At(region, off),
                      Append(acc, Slice(region, off + 1, off + 1 + At(region, off))))

TxtItems(region) == TxtItemsFrom(region, 0, << >>)

\* the catalogue's Resolve replies with a decodable reply header
ResolveTxtKinds == { k \in 1..Len(Catalogue) : "txt" \in DOMAIN Catalogue[k] }

\* C30: TXT unpacking. A read that brings a complete Resolve reply frame to the
\* front of an empty buffer leads to the send of a ServiceResolved event whose
\* TXT list holds the length-prefixed items of the txt_len region, up to the end
\* of the region or to the first item, after at least one, whose length byte
\* points past the region; the list is empty for txt_len = 0; when the first item
\* already points past the region the reply fails to decode and no event is sent.
C30_TxtUnpacking ==
    [][\A i \in 1..Len(frames) :
           (ReadsWholeFrame(i) /\ frames[i] \in ResolveTxtKinds)
           => IF TxtItems(Catalogue[frames[i]].txt).ok
              THEN /\ pc' = "send"
                   /\ Head(pending').at = base
                   /\ Head(pending').ev.type = "ServiceResolved"
                   /\ Head(pending').ev.resolved.txt_data =
                          TxtItems(Catalogue[frames[i]].txt).items
              ELSE /\ pc' = "select"
                   /\ pending' = << >>
                   /\ published' = published]_vars

\* a reply whose first TXT item is cut short was dropped without an event, and
\* the reply behind it, whose second item is cut short, was published with its
\* first item alone
C30_Witness ==
    /\ frames = << 16, 15 >>
    /\ PubEvs = << ResolvedWith(<< << 107, 61, 118 >> >>) >>
    /\ pc = "select"
    /\ wire = << >>
    /\ written = 2

----------------------------------------------------------------------------
(* C31 *)

\* the escaped form of one TXT byte as the wire format gives it
EscapedByte(b) ==
    IF b < 32 \/ b > 126
    THEN << 92, 48 + (b \div 100), 48 + ((b \div 10) % 10), 48 + (b % 10) >>
    ELSE IF b = 34 \/ b = 92 THEN << 92, b >>
    ELSE << b >>

RECURSIVE EscapedItem(_)
EscapedItem(d) == IF d = << >> THEN << >> ELSE EscapedByte(Head(d)) \o EscapedItem(Tail(d))

\* C31: TXT item escaping. Unpacking an item gives, byte by byte in the original
\* order, a backslash and three zero-padded decimal digits for a byte below 0x20
\* or above 0x7E, a backslash and the character for the double quote and the
\* backslash, and the byte itself for every other printable ASCII byte.
C31_TxtEscaping ==
    (codec.fn = "item" /\ codec.stage = "done") =>
        /\ codec.out.kind = "ok"
        /\ codec.out.s = EscapedItem(codec.arg)
        /\ codec.out.off = Len(codec.bytes)

\* the item "\t" followed by 0xC8 was unpacked to \009\200
C31_Witness ==
    /\ codec.fn = "item"
    /\ codec.stage = "done"
    /\ codec.arg = << 9, 200 >>
    /\ codec.out.s = << 92, 48, 48, 57, 92, 50, 48, 48 >>

----------------------------------------------------------------------------
(* C33 *)

\* C33: the cursor after a string. After a reply-body string has been decoded,
\* whatever its bytes, the cursor stands on the byte right after the string's
\* terminator.
C33_CursorAfterString ==
    (codec.fn = "cstr" /\ codec.stage = "done") => codec.out.next = Len(codec.arg) + 1

----------------------------------------------------------------------------
(* C32 *)

\* the catalogue's replies whose rdlen or txt_len extends past the body
TruncatedKinds == { k \in 1..Len(Catalogue) : "declared" \in DOMAIN Catalogue[k] }

\* C32: overlong sub-field lengths. A read that brings to the front of an empty
\* buffer a complete AddressInfo or Resolve reply whose rdlen or txt_len extends
\* past the end of the body leads to no event: decoding fails and nothing is
\* published, whatever bytes follow the frame in the buffer; and the event of a
\* whole reply holds the bytes of its own body only, whatever follows it.
C32_TruncatedSubField ==
    [][\A i \in 1..Len(frames) :
           (ReadsWholeFrame(i) /\ frames[i] \in TruncKinds)
           => IF frames[i] \in TruncatedKinds
              THEN /\ pc' = "select"
                   /\ pending' = << >>
                   /\ published' = published
              ELSE /\ pc' = "send"
                   /\ Head(pending').at = base
                   /\ Head(pending').ev = Catalogue[frames[i]].event]_vars

\* a reply with an overlong rdlen was dropped without an event, and the reply
\* written behind it was then read and published with its own address
C32_Witness ==
    /\ frames = << 18, 3 >>
    /\ PubEvs = << Catalogue[3].event >>
    /\ pc = "select"
    /\ wire = << >>
    /\ written = 2

----------------------------------------------------------------------------
(* C34 *)

\* the bytes of the first k frames of the daemon's output
RECURSIVE StreamUpTo(_)
StreamUpTo(k) == IF k = 0 THEN << >> ELSE StreamUpTo(k - 1) \o Catalogue[frames[k]].bytes

\* C34: buffer accounting. Whenever the reader is back at its select, its buffer
\* is empty or is exactly the bytes read and not consumed, starting at the frame
\* the parser reported incomplete; every published event comes from a frame that
\* lies wholly before the buffer, and no two events come from the same frame.
C34_BufferAccounting ==
    pc = "select" =>
        /\ base + Len(buffer) + Len(wire) = Len(StreamUpTo(written))
        /\ buffer = SubSeq(StreamUpTo(written), base + 1, base + Len(buffer))
        /\ buffer # << >> => parse_frame(buffer).kind = "incomplete"
        /\ \A i \in 1..Len(published) : \E k \in 1..written :
               /\ FrameStart(k) = published[i].at
               /\ FrameStart(k) + FrameLen(k) <= base
        /\ \A i \in 1..Len(published) : \A j \in 1..Len(published) :
               i # j => published[i].at # published[j].at
        /\ Len(published) + Len(lost) <= written

\* the first frame's event is published and the buffer holds the incomplete
\* second frame, which arrived in the same read as the end of the first
C34_Witness ==
    /\ pc = "select"
    /\ written = 2
    /\ Len(published) = 1
    /\ published[1].at = 0
    /\ base = FrameStart(2)
    /\ Len(buffer) > IPC_HEADER_SIZE
    /\ wire # << >>

----------------------------------------------------------------------------
(* C35 *)

\* the catalogue's frames whose parse ends in an error once they are whole
ErrorKinds == { k \in 1..Len(Catalogue) : parse_frame(Catalogue[k].bytes).kind = "err" }

\* C35: a parse error discards the whole buffer. When a read brings a whole
\* frame that fails to parse to the front of an empty buffer, everything the
\* read brought is discarded with it, the whole frames behind it included, and
\* no event is sent; when the failing frame comes behind a frame that parses,
\* the pass sends that first frame's event alone and ends with an empty buffer,
\* so the event is not sent again.
C35_ParseErrorDiscardsAll ==
    [][\A i \in 1..Len(frames) :
           /\ (ReadsWholeFrame(i) /\ frames[i] \in ErrorKinds)
              => /\ pc' = "select"
                 /\ buffer' = << >>
                 /\ base' = base + Taken
                 /\ pending' = << >>
                 /\ published' = published
                 /\ lost' = lost
           /\ ( /\ ReadsWholeFrame(i)
                /\ frames[i] \notin ErrorKinds
                /\ i < written
                /\ frames[i + 1] \in ErrorKinds
                /\ Taken >= FrameLen(i) + FrameLen(i + 1) )
              => /\ pc' = "send"
                 /\ Len(pending') = 1
                 /\ Head(pending').at = base
                 /\ Head(pending').ev = Catalogue[frames[i]].event
                 /\ after' = [pc |-> "select", buffer |-> << >>, base |-> base + Taken]]_vars

\* a frame with an unknown operation and a Browse reply behind it were read in
\* one piece and the Browse reply's event was never sent
C35_Witness ==
    /\ frames = << 6, 1 >>
    /\ written = 2
    /\ wire = << >>
    /\ pc = "select"
    /\ buffer = << >>
    /\ base = FrameStart(2) + FrameLen(2)
    /\ rx = "open"
    /\ published = << >>
    /\ lost = << >>

----------------------------------------------------------------------------
(* C36 *)

\* stream offset b lies inside a frame the daemon has written, behind its first
\* byte
MidFrame(b) == \E k \in 1..written : FrameStart(k) < b /\ b < FrameStart(k) + FrameLen(k)

\* C36: no resynchronisation. A read into an empty buffer takes the bytes it
\* returns as a frame from their first byte on, wherever in the daemon's output
\* that byte lies: the pass keeps them when they parse as incomplete, discards
\* them when they fail to parse, and sends an event located at that first byte
\* otherwise. When that byte lies inside a frame (its head was discarded by a
\* parse error), every byte read is discarded in turn and no event is sent, also
\* when the read returns the whole of the next frame behind the rest of the
\* discarded one.
C36_NoResync ==
    [][(IsRead /\ buffer = << >>)
       => /\ parse_frame(Slice(wire, 0, Taken)).kind = "incomplete"
             => (pc' = "select" /\ buffer' = Slice(wire, 0, Taken) /\ base' = base)
          /\ parse_frame(Slice(wire, 0, Taken)).kind = "err"
             => (pc' = "select" /\ buffer' = << >> /\ base' = base + Taken)
          /\ parse_frame(Slice(wire, 0, Taken)).kind = "send"
             => (pc' = "send" /\ Head(pending').at = base)
          /\ MidFrame(base)
             => /\ pc' = "select"
                /\ buffer' = << >>
                /\ base' = base + Taken
                /\ pending' = << >>
                /\ published' = published
                /\ lost' = lost]_vars

\* the header of a Query reply was discarded before its body had arrived, and
\* the body was then read together with the first bytes of the Browse reply
\* behind it and discarded too: the reader idles inside the Browse reply
C36_Witness ==
    /\ frames = << 8, 1 >>
    /\ written = 2
    /\ pc = "select"
    /\ buffer = << >>
    /\ base = FrameStart(2) + 16
    /\ Len(wire) = FrameLen(2) - 16
    /\ published = << >>
    /\ lost = << >>

----------------------------------------------------------------------------
(* C37 *)

\* the number of bytes that reached the socket between the start of the i-th
\* call's write and the start of the next call's
WrittenBy(i) == (IF i < Len(calls) THEN calls[i + 1].at ELSE Len(sent)) - calls[i].at

\* C37: a failed call writes nothing. A writer call that returned an error has
\* put no byte on the socket; a call that returned success has put a prefix of
\* its frame there, in one piece.
C37_FailedCallWritesNothing ==
    \A i \in 1..Len(calls) :
        /\ ~Succeeded(i) => WrittenBy(i) = 0
        /\ Succeeded(i) =>
               /\ WrittenBy(i) <= Len(calls[i].buf)
               /\ Slice(sent, calls[i].at, calls[i].at + WrittenBy(i))
                      = Slice(calls[i].buf, 0, WrittenBy(i))

\* a call failed, the next call succeeded, and the socket holds the second
\* call's frame alone
C37_Witness ==
    /\ Len(calls) = 2
    /\ ~Succeeded(1)
    /\ Succeeded(2)
    /\ calls[1].buf # << >>
    /\ sent = calls[2].buf

----------------------------------------------------------------------------
(* C38 *)

\* C38: the drain loop is bounded. In the pass that follows a read, every frame
\* parsed moves the position on by its size, which is at least the 28 bytes of a
\* header, the frames parsed lie one behind the other inside the buffer, and the
\* loop body runs at most (buffer length / 28) + 1 times: once per frame parsed
\* and at most once more, for the incomplete frame or the parse error that ends
\* the loop.
C38_DrainLoopBounded ==
    [][IsRead =>
           /\ DrainCount(buffer \o Slice(wire, 0, Taken), 0)
                  <= (Len(buffer) + Taken) \div IPC_HEADER_SIZE + 1
           /\ DrainCount(buffer \o Slice(wire, 0, Taken), 0) \in
                  {Len(pending'), Len(pending') + 1}
           /\ \A j \in 1..Len(pending') :
                  /\ pending'[j].size >= IPC_HEADER_SIZE
                  /\ pending'[j].at =
                         IF j = 1 THEN base
                         ELSE pending'[j - 1].at + pending'[j - 1].size
                  /\ pending'[j].at + pending'[j].size <= base + Len(buffer) + Taken]_vars

\* one read brought two whole frames and the pass is in the send of the first
\* of its two events
C38_Witness ==
    /\ pc = "send"
    /\ pos = 0
    /\ Len(pending) = 2
    /\ buffer = Catalogue[frames[1]].bytes \o Catalogue[frames[2]].bytes

====
